---- MODULE Spec2Model ----
(***************************************************************************)
(* Verification model of gui_agent_skill.                                  *)
(*                                                                         *)
(* Part I  (Spec, SpecExec, FairExec, FairWatch): one CLI invocation as a  *)
(*   set of contexts: the main thread (cli.main -> execute_task ->         *)
(*   _run_with_timeout), the timeout worker thread, the parent watchdog    *)
(*   thread, asynchronous interrupt signals, the parent process and the    *)
(*   spawned subprocesses with the process-wide registry.                  *)
(* Part II (specification SpecStore): the SessionManager state machine     *)
(*   with its in-memory map, its durable records and the clock.            *)
(***************************************************************************)
EXTENDS Integers, Sequences, FiniteSets, TLC

(* ------------------------------ bounds -------------------------------- *)
\* number of subprocesses an operation may spawn in one invocation
MaxProcs == 2
\* number of subprocesses the operation may spawn where the watchdog's cleanup
\* runs concurrently with everything else (specification FairWatch)
MaxWatchProcs == 1

\* time.time() runs from 0 to MaxTime
MaxTime == 2

\* updates of one session
MaxSteps == 1

\* expire_seconds of the SessionManager, in ticks of the clock
ExpireSeconds == 1

Procs == 1..MaxProcs

VARIABLES
    \* ---- Part I: process model ----
    mainPc,          \* position of the main thread in cli.main
    workerPc,        \* position of the _run_with_timeout worker thread
    wdPc,            \* position of the parent watchdog thread
    timeout_sec,     \* << >> = None, <<n>> = the effective timeout_sec
    parent_pid,      \* << >> = not captured, <<n>> = os.getppid() at startup
    ppid,            \* what os.getppid() returns now
    parentAlive,     \* the process that started this one still runs
    tracked,         \* _TRACKED_SUBPROCESSES
    status,          \* per subprocess: unborn / running / dying / dead
    pending,         \* Popen created by super().__init__, not yet registered (0 = none)
    cl,              \* per thread: the frame of cleanup_tracked_subprocesses
    holder,          \* result_holder / error_holder of _run_with_timeout
    rwt,             \* what _run_with_timeout reported to its caller
    result,          \* the result dict of cli.main
    exit,            \* "none" while the process runs, else how it ended
    forceCleaned,    \* _force_exit's cleanup call has returned
    \* ---- Part II: session store ----
    sessions,        \* SessionManager._sessions : id -> Session
    disk,            \* storage_dir : id -> durable record
    now,             \* time.time()
    ret,             \* last store operation and what it returned
    ended,           \* ids of the sessions an operation returned as completed or expired
    \* ---- Part III: public operations of the executor ----
    call,            \* the operation in flight and where it stands
    out              \* the result dict the last public operation returned

procVars  == <<mainPc, workerPc, wdPc, timeout_sec, parent_pid, ppid, parentAlive,
               tracked, status, pending, cl, holder, rwt, result, exit, forceCleaned>>
storeVars == <<sessions, disk, now, ret, ended>>
callVars  == <<call, out>>
vars      == <<procVars, storeVars, callVars>>

(* ------------------------- helpers (Part I) --------------------------- *)
None == << >>
Some(x) == <<x>>

Min(S) == CHOOSE x \in S : \A y \in S : x <= y

\* proc.poll() is None: the child has not been reaped as exited.
\* A child that was sent SIGKILL but has not yet died ("dying") still polls None.
PollIsNone(p) == status[p] \in {"running", "dying"}

Threads == {"main", "wd"}

IdleFrame == [pc |-> "idle", site |-> "none", live |-> {}, termed |-> {},
              checked |-> {}, killed |-> {}]

\* the thread-local frame right after the first _collect_live_subprocesses()
\* of cleanup_tracked_subprocesses (executor.py:99-101)
EnterCleanup(site) ==
    LET live == {p \in tracked : PollIsNone(p)} IN
    [pc |-> IF live = {} THEN "ret" ELSE "term", site |-> site, live |-> live,
     termed |-> {}, checked |-> {}, killed |-> {}]

\* a changed _collect_live_subprocesses that also discards a handle whose
\* child was sent SIGKILL and has not been reaped yet
CollectPruneSignalled == {p \in tracked : status[p] = "running"}

\* _collect_live_subprocesses: stale handles are discarded (executor.py:47-58)
CollectPrune == {p \in tracked : PollIsNone(p)}

Running == exit = "none"

\* the process ends (return from main, os._exit, an uncaught exception or a fatal
\* signal): every thread of it ends with it; its children live on
ProcessEnds(how) ==
    /\ exit' = how
    /\ workerPc' = "gone"
    /\ wdPc' = "gone"
    /\ pending' = 0
    /\ holder' = "empty"
    /\ cl' = [t \in Threads |-> IdleFrame]

NoResult == [kind |-> "unset", timed_out |-> FALSE, terminated |-> 0]

(* ------------------------------ Init ---------------------------------- *)
\* os.getppid() at process start: 0 (parent outside the pid namespace),
\* 1 (started by init) or an ordinary shell/tool (2).
InitPpids == {0, 1, 2}
\* timeout_sec values: absent, non-positive, positive
TimeoutValues == {None, Some(-1), Some(0), Some(1)}

ProcInit ==
    /\ mainPc = "start"
    /\ workerPc = "idle"
    /\ wdPc = "off"
    /\ timeout_sec \in TimeoutValues
    /\ parent_pid = None
    /\ ppid \in InitPpids
    /\ parentAlive = TRUE
    /\ tracked = {}
    /\ status = [p \in Procs |-> "unborn"]
    /\ pending = 0
    /\ cl = [t \in Threads |-> IdleFrame]
    /\ holder = "empty"
    /\ rwt = [outcome |-> "none", cleanup |-> "no", cleaned |-> 0]
    /\ result = NoResult
    /\ exit = "none"
    /\ forceCleaned = FALSE

\* no public operation in flight
Idle == [pc |-> "idle"]

\* no public operation has returned yet
NoOut == [op |-> "none"]

CallIdle ==
    /\ call = Idle
    /\ out = NoOut

\* an empty dict
EmptyDict == [k \in {} |-> None]

\* SessionManager() over an empty storage directory
StoreIdle ==
    /\ sessions = EmptyDict
    /\ disk = EmptyDict
    /\ now = 0
    /\ ret = [op |-> "init", id |-> "-", out |-> None]
    /\ ended = {}

(* ===================================================================== *)
(* Part I: actions                                                       *)
(* ===================================================================== *)

(* --------------------- Subprocess Registry ----------------------------- *)
\* A frame of cleanup_tracked_subprocesses is entered by the action of its
\* call site (EnterCleanup); the passes below are the rest of the call.

\* a changed first pass that deals with one child at a time: SIGTERM and,
\* if it has not exited, SIGKILL right after
TermPassThenKill(t) ==
    /\ Running
    /\ cl[t].pc = "term"
    /\ LET p == Min(cl[t].live \ cl[t].termed)
           done == cl[t].termed \cup {p} = cl[t].live
       IN  /\ cl' = [cl EXCEPT ![t].termed = @ \cup {p},
                               ![t].killed = IF PollIsNone(p) THEN @ \cup {p} ELSE @,
                               ![t].pc = IF done THEN "wait" ELSE "term"]
           /\ status' = IF PollIsNone(p) THEN [status EXCEPT ![p] = "dying"] ELSE status
    /\ UNCHANGED <<mainPc, workerPc, wdPc, timeout_sec, parent_pid, ppid, parentAlive,
                   tracked, pending, holder, rwt, result, exit,
                   forceCleaned, storeVars, callVars>>

\* _terminate_process(proc, force=False), one iteration of the first pass
\* (executor.py:103-104).  SIGTERM is a request: the child reacts, if it
\* ever does, through SubprocessExit.
TermPass(t) ==
    /\ Running
    /\ cl[t].pc = "term"
    /\ LET p == Min(cl[t].live \ cl[t].termed)
           done == cl[t].termed \cup {p} = cl[t].live
       IN  cl' = [cl EXCEPT ![t].termed = @ \cup {p},
                            ![t].pc = IF done THEN "wait" ELSE "term"]
    /\ UNCHANGED <<mainPc, workerPc, wdPc, timeout_sec, parent_pid, ppid, parentAlive,
                   tracked, status, pending, holder, rwt, result, exit,
                   forceCleaned, storeVars, callVars>>

\* the bounded wait of the second loop (executor.py:106-114): it ends when
\* every child was waited for or the grace period is over
WaitPass(t) ==
    /\ Running
    /\ cl[t].pc = "wait"
    /\ cl' = [cl EXCEPT ![t].pc = "kill"]
    /\ UNCHANGED <<mainPc, workerPc, wdPc, timeout_sec, parent_pid, ppid, parentAlive,
                   tracked, status, pending, holder, rwt, result, exit,
                   forceCleaned, storeVars, callVars>>

\* one iteration of the third pass (executor.py:116-118): SIGKILL to a child
\* whose poll() is still None
KillPass(t) ==
    /\ Running
    /\ cl[t].pc = "kill"
    /\ LET p == Min(cl[t].live \ cl[t].checked)
           done == cl[t].checked \cup {p} = cl[t].live
       IN  /\ cl' = [cl EXCEPT ![t].checked = @ \cup {p},
                               ![t].killed = IF PollIsNone(p) THEN @ \cup {p} ELSE @,
                               ![t].pc = IF done THEN "final" ELSE "kill"]
           /\ status' = IF PollIsNone(p) THEN [status EXCEPT ![p] = "dying"] ELSE status
    /\ UNCHANGED <<mainPc, workerPc, wdPc, timeout_sec, parent_pid, ppid, parentAlive,
                   tracked, pending, holder, rwt, result, exit,
                   forceCleaned, storeVars, callVars>>

\* the closing _collect_live_subprocesses() and return len(live)
\* (executor.py:120-121)
FinalCollect(t) ==
    /\ Running
    /\ cl[t].pc = "final"
    /\ tracked' = CollectPrune
    /\ cl' = [cl EXCEPT ![t].pc = "ret"]
    /\ UNCHANGED <<mainPc, workerPc, wdPc, timeout_sec, parent_pid, ppid, parentAlive,
                   status, pending, holder, rwt, result, exit,
                   forceCleaned, storeVars, callVars>>

\* a changed return value: the number of children that needed SIGKILL
CleanedCountsKilled(t) == Cardinality(cl[t].killed)

\* the value cleanup_tracked_subprocesses returns from a frame at "ret"
Cleaned(t) == Cardinality(cl[t].live)

(* -------------------------- subprocesses ------------------------------- *)
\* a child ends by itself or in reaction to SIGTERM
SubprocessExit(p) ==
    /\ status[p] = "running"
    /\ status' = [status EXCEPT ![p] = "dead"]
    /\ UNCHANGED <<mainPc, workerPc, wdPc, timeout_sec, parent_pid, ppid, parentAlive,
                   tracked, pending, cl, holder, rwt, result, exit,
                   forceCleaned, storeVars, callVars>>

\* a child that was sent SIGKILL dies
SubprocessKilled(p) ==
    /\ status[p] = "dying"
    /\ status' = [status EXCEPT ![p] = "dead"]
    /\ UNCHANGED <<mainPc, workerPc, wdPc, timeout_sec, parent_pid, ppid, parentAlive,
                   tracked, pending, cl, holder, rwt, result, exit,
                   forceCleaned, storeVars, callVars>>

(* --------------------------- the operation ----------------------------- *)
\* func() runs on the worker (timeout given) or on the main thread (no timeout)
OnWorker == workerPc = "run"
OnMain   == mainPc = "sync"
OpRunning == Running /\ (OnWorker \/ OnMain)

\* PatchedPopen.__init__: super().__init__() creates the child (executor.py:144)
\* (at most n children in all)
OpSpawnUpTo(n) ==
    /\ OpRunning
    /\ pending = 0
    /\ \E p \in 1..n :
          /\ status[p] = "unborn"
          /\ \A q \in Procs : q < p => status[q] # "unborn"
          /\ status' = [status EXCEPT ![p] = "running"]
          /\ pending' = p
    /\ UNCHANGED <<mainPc, workerPc, wdPc, timeout_sec, parent_pid, ppid, parentAlive,
                   tracked, cl, holder, rwt, result, exit,
                   forceCleaned, storeVars, callVars>>

OpSpawn == OpSpawnUpTo(MaxProcs)

\* PatchedPopen.__init__: _register_subprocess(self) (executor.py:145, 42-44)
OpRegister ==
    /\ OpRunning
    /\ pending # 0
    /\ tracked' = tracked \cup {pending}
    /\ pending' = 0
    /\ UNCHANGED <<mainPc, workerPc, wdPc, timeout_sec, parent_pid, ppid, parentAlive,
                   status, cl, holder, rwt, result, exit,
                   forceCleaned, storeVars, callVars>>

\* func() returns (how = "value") or raises (how = "error"):
\* _target stores it (executor.py:633-637), or the synchronous call hands it
\* to the caller directly (executor.py:625-626)
OpFinish(how) ==
    /\ OpRunning
    /\ pending = 0
    /\ IF OnWorker
         THEN /\ holder' = how
              /\ workerPc' = "stored"
              /\ UNCHANGED <<mainPc, rwt>>
         ELSE /\ rwt' = [rwt EXCEPT !.outcome = how]
              /\ mainPc' = "rwt_ret"
              /\ UNCHANGED <<holder, workerPc>>
    /\ UNCHANGED <<wdPc, timeout_sec, parent_pid, ppid, parentAlive,
                   tracked, status, pending, cl, result, exit,
                   forceCleaned, storeVars, callVars>>

\* the worker thread ends after _target returned
WorkerExit ==
    /\ Running
    /\ workerPc = "stored"
    /\ workerPc' = "dead"
    /\ UNCHANGED <<mainPc, wdPc, timeout_sec, parent_pid, ppid, parentAlive,
                   tracked, status, pending, cl, holder, rwt, result, exit,
                   forceCleaned, storeVars, callVars>>

(* ------------------------- the parent process -------------------------- *)
\* The process that started this one exits: this process is reparented to
\* init (1) or to a supervisor / subreaper (3).
ParentExit ==
    /\ Running
    /\ parent_pid # None
    /\ parentAlive
    /\ ppid \notin {0, 1}
    /\ parentAlive' = FALSE
    /\ \E np \in {1, 3} : ppid' = np
    /\ UNCHANGED <<mainPc, workerPc, wdPc, timeout_sec, parent_pid,
                   tracked, status, pending, cl, holder, rwt, result, exit,
                   forceCleaned, storeVars, callVars>>

(* ------------------------------ cli.main -------------------------------- *)
\* _start_parent_watchdog: parent_pid = os.getppid() (cli.py:202)
MainCaptureParent ==
    /\ Running
    /\ mainPc = "start"
    /\ parent_pid' = Some(ppid)
    /\ mainPc' = "wd_start"
    /\ UNCHANGED <<workerPc, wdPc, timeout_sec, ppid, parentAlive,
                   tracked, status, pending, cl, holder, rwt, result, exit,
                   forceCleaned, storeVars, callVars>>

\* _start_parent_watchdog / _start_posix_parent_watchdog (cli.py:203-210,
\* 175-193): no watchdog for parent_pid <= 0, else the daemon thread starts
MainStartWatchdog ==
    /\ Running
    /\ mainPc = "wd_start"
    /\ wdPc' = IF parent_pid[1] <= 0 THEN "off" ELSE "poll"
    /\ mainPc' = "install"
    /\ UNCHANGED <<workerPc, timeout_sec, parent_pid, ppid, parentAlive,
                   tracked, status, pending, cl, holder, rwt, result, exit,
                   forceCleaned, storeVars, callVars>>

\* _try_enable_linux_parent_death_signal (cli.py:168-170): on Linux, when the
\* parent went away before prctl took effect, the main thread itself calls
\* _force_exit(130); nothing is registered yet, so its cleanup returns 0 at once.
MainPdeathRace ==
    /\ Running
    /\ mainPc = "wd_start"
    /\ parent_pid[1] > 0
    /\ ppid # parent_pid[1]
    /\ forceCleaned' = TRUE
    /\ ProcessEnds("130")
    /\ UNCHANGED <<mainPc, timeout_sec, parent_pid, ppid, parentAlive,
                   tracked, status, rwt, result, storeVars, callVars>>

\* _install_signal_handlers (cli.py:213-226)
MainInstallHandlers ==
    /\ Running
    /\ mainPc = "install"
    /\ mainPc' = "parse"
    /\ UNCHANGED <<workerPc, wdPc, timeout_sec, parent_pid, ppid, parentAlive,
                   tracked, status, pending, cl, holder, rwt, result, exit,
                   forceCleaned, storeVars, callVars>>

\* PR_SET_PDEATHSIG asks for SIGTERM when the parent exits (cli.py:165); until
\* the handlers are installed SIGTERM has its default action and ends the process
PdeathsigBeforeHandlers ==
    /\ Running
    /\ mainPc = "install"
    /\ wdPc = "poll"
    /\ ~parentAlive
    /\ ProcessEnds("sigterm")
    /\ UNCHANGED <<mainPc, timeout_sec, parent_pid, ppid, parentAlive,
                   tracked, status, rwt, result, forceCleaned, storeVars, callVars>>

\* parser.parse_args() up to the try block (cli.py:360-560)
MainParse ==
    /\ Running
    /\ mainPc = "parse"
    /\ mainPc' = "cmd"
    /\ UNCHANGED <<workerPc, wdPc, timeout_sec, parent_pid, ppid, parentAlive,
                   tracked, status, pending, cl, holder, rwt, result, exit,
                   forceCleaned, storeVars, callVars>>

\* entering the finally block of main with result `res`: the tail cleanup
\* call starts (cli.py:575-576)
EnterFinally(res) ==
    /\ result' = res
    /\ mainPc' = "finally"
    /\ cl' = [cl EXCEPT !["main"] = EnterCleanup("finally")]
    /\ tracked' = CollectPrune

Failure == [kind |-> "failure", timed_out |-> FALSE, terminated |-> 0]

\* args.func(args) ends before any adapter call: a CLI validation failure
\* (cli.py:233-236), a failure result of execute_task (executor.py:670-715)
\* or an ExecutorError caught by main (cli.py:571-572)
MainCmdRejected ==
    /\ Running
    /\ mainPc = "cmd"
    /\ EnterFinally(Failure)
    /\ UNCHANGED <<workerPc, wdPc, timeout_sec, parent_pid, ppid, parentAlive,
                   status, pending, holder, rwt, exit,
                   forceCleaned, storeVars, callVars>>

\* execute_task reaches self._run_with_timeout(...) (executor.py:733-747)
MainCmdCall ==
    /\ Running
    /\ mainPc = "cmd"
    /\ mainPc' = "rwt"
    /\ UNCHANGED <<workerPc, wdPc, timeout_sec, parent_pid, ppid, parentAlive,
                   tracked, status, pending, cl, holder, rwt, result, exit,
                   forceCleaned, storeVars, callVars>>

(* ---------------------- _run_with_timeout ------------------------------- *)
\* a changed test `timeout_sec < 0`
NonPositiveStrict(t) == t # None /\ t[1] < 0

\* `timeout_sec <= 0` for a timeout that is present (executor.py:627)
NonPositive(t) == t # None /\ t[1] <= 0

\* timeout_sec is None: return func() (executor.py:625-626)
RwtSync ==
    /\ Running
    /\ mainPc = "rwt"
    /\ timeout_sec = None
    /\ mainPc' = "sync"
    /\ UNCHANGED <<workerPc, wdPc, timeout_sec, parent_pid, ppid, parentAlive,
                   tracked, status, pending, cl, holder, rwt, result, exit,
                   forceCleaned, storeVars, callVars>>

\* timeout_sec <= 0: raise ExecutorError (executor.py:627-628)
RwtReject ==
    /\ Running
    /\ mainPc = "rwt"
    /\ NonPositive(timeout_sec)
    /\ rwt' = [rwt EXCEPT !.outcome = "invalid"]
    /\ mainPc' = "rwt_ret"
    /\ UNCHANGED <<workerPc, wdPc, timeout_sec, parent_pid, ppid, parentAlive,
                   tracked, status, pending, cl, holder, result, exit,
                   forceCleaned, storeVars, callVars>>

\* worker.start() (executor.py:630-644)
RwtStartWorker ==
    /\ Running
    /\ mainPc = "rwt"
    /\ timeout_sec # None
    /\ ~NonPositive(timeout_sec)
    /\ workerPc' = "run"
    /\ mainPc' = "join"
    /\ UNCHANGED <<wdPc, timeout_sec, parent_pid, ppid, parentAlive,
                   tracked, status, pending, cl, holder, rwt, result, exit,
                   forceCleaned, storeVars, callVars>>

\* a changed join: worker.join() without a timeout
RwtJoinForever ==
    /\ Running
    /\ mainPc = "join"
    /\ workerPc = "dead"
    /\ mainPc' = "check"
    /\ UNCHANGED <<workerPc, wdPc, timeout_sec, parent_pid, ppid, parentAlive,
                   tracked, status, pending, cl, holder, rwt, result, exit,
                   forceCleaned, storeVars, callVars>>

\* worker.join(timeout_sec) returns: the worker ended or the time is up
\* (executor.py:645)
RwtJoinReturns ==
    /\ Running
    /\ mainPc = "join"
    /\ mainPc' = "check"
    /\ UNCHANGED <<workerPc, wdPc, timeout_sec, parent_pid, ppid, parentAlive,
                   tracked, status, pending, cl, holder, rwt, result, exit,
                   forceCleaned, storeVars, callVars>>

\* worker.is_alive()
WorkerIsAlive == workerPc # "dead"

\* what the code after the join reports when the worker is no longer alive
\* (executor.py:653-657)
HolderOutcome == IF holder = "empty" THEN "error" ELSE holder

\* a changed check: the cleanup is called whether or not the worker is alive
RwtAfterJoinAlwaysCleanup ==
    /\ Running
    /\ mainPc = "check"
    /\ mainPc' = "to_cleanup"
    /\ cl' = [cl EXCEPT !["main"] = EnterCleanup("timeout")]
    /\ tracked' = CollectPrune
    /\ rwt' = [rwt EXCEPT !.cleanup = "called"]
    /\ UNCHANGED <<workerPc, wdPc, timeout_sec, parent_pid, ppid, parentAlive,
                   status, pending, holder, result, exit,
                   forceCleaned, storeVars, callVars>>

\* if worker.is_alive(): cleaned = cleanup_tracked_subprocesses() ...
\* else raise the stored error / return the stored value (executor.py:647-657)
RwtAfterJoin ==
    /\ Running
    /\ mainPc = "check"
    /\ IF WorkerIsAlive
         THEN /\ mainPc' = "to_cleanup"
              /\ cl' = [cl EXCEPT !["main"] = EnterCleanup("timeout")]
              /\ tracked' = CollectPrune
              /\ rwt' = [rwt EXCEPT !.cleanup = "called"]
         ELSE /\ mainPc' = "rwt_ret"
              /\ rwt' = [rwt EXCEPT !.outcome = HolderOutcome]
              /\ UNCHANGED <<cl, tracked>>
    /\ UNCHANGED <<workerPc, wdPc, timeout_sec, parent_pid, ppid, parentAlive,
                   status, pending, holder, result, exit,
                   forceCleaned, storeVars, callVars>>

\* a changed timeout path: after the cleanup, a result the worker has stored
\* in the meantime is picked up and returned instead of the timeout error
RwtLateResult ==
    /\ Running
    /\ mainPc = "to_cleanup"
    /\ cl["main"].pc = "ret"
    /\ rwt' = [outcome |-> IF holder = "empty" THEN "timeout" ELSE holder,
               cleanup |-> "returned", cleaned |-> Cleaned("main")]
    /\ cl' = [cl EXCEPT !["main"] = IdleFrame]
    /\ mainPc' = "rwt_ret"
    /\ UNCHANGED <<workerPc, wdPc, timeout_sec, parent_pid, ppid, parentAlive,
                   tracked, status, pending, holder, result, exit,
                   forceCleaned, storeVars, callVars>>

\* raise OperationTimeoutError(..., terminated_subprocesses=cleaned)
\* (executor.py:648-652)
RwtRaiseTimeout ==
    /\ Running
    /\ mainPc = "to_cleanup"
    /\ cl["main"].pc = "ret"
    /\ rwt' = [outcome |-> "timeout", cleanup |-> "returned", cleaned |-> Cleaned("main")]
    /\ cl' = [cl EXCEPT !["main"] = IdleFrame]
    /\ mainPc' = "rwt_ret"
    /\ UNCHANGED <<workerPc, wdPc, timeout_sec, parent_pid, ppid, parentAlive,
                   tracked, status, pending, holder, result, exit,
                   forceCleaned, storeVars, callVars>>

\* the result execute_task builds from what _run_with_timeout reported
\* (executor.py:748-776, 927-948)
ResultOf(r) ==
    IF r.outcome = "value"
      THEN [kind |-> "success", timed_out |-> FALSE, terminated |-> 0]
    ELSE IF r.outcome = "timeout"
      THEN [kind |-> "failure", timed_out |-> TRUE, terminated |-> r.cleaned]
    ELSE Failure

\* result = args.func(args) is assigned and the try block is left (cli.py:561)
MainCmdReturns ==
    /\ Running
    /\ mainPc = "rwt_ret"
    /\ EnterFinally(ResultOf(rwt))
    /\ UNCHANGED <<workerPc, wdPc, timeout_sec, parent_pid, ppid, parentAlive,
                   status, pending, holder, rwt, exit,
                   forceCleaned, storeVars, callVars>>

(* --------------------- interrupts and the end of main ------------------- *)
\* positions of the main thread inside `try: result = args.func(args)`
TryPcs == {"cmd", "rwt", "sync", "join", "check", "to_cleanup", "rwt_ret"}
\* positions inside _run_with_timeout
RwtPcs == {"rwt", "sync", "join", "check", "to_cleanup"}
\* positions after _install_signal_handlers and before main returns
HandledPcs == TryPcs \cup {"parse", "interrupted", "finally", "print"}

\* SIGINT/SIGTERM is delivered: _handle_interrupt raises KeyboardInterrupt in
\* the main thread, wherever it is (cli.py:216-217).
\*  - inside the try block: `except KeyboardInterrupt` is entered and its
\*    cleanup call starts (cli.py:562-563); a Popen the main thread had created
\*    but not yet registered is never registered;
\*  - inside the except block: the exception leaves it, the finally block runs
\*    with nothing assigned to result (cli.py:575-576);
\*  - anywhere else (argument parsing, the finally block, printing) nothing
\*    catches it.
Interrupt ==
    /\ Running
    /\ mainPc \in HandledPcs
    /\ IF mainPc \in TryPcs
         THEN /\ mainPc' = "interrupted"
              /\ cl' = [cl EXCEPT !["main"] = EnterCleanup("interrupt")]
              /\ tracked' = CollectPrune
              /\ rwt' = IF mainPc \in RwtPcs THEN [rwt EXCEPT !.outcome = "interrupted"]
                                             ELSE rwt
              /\ pending' = IF mainPc = "sync" THEN 0 ELSE pending
              /\ UNCHANGED <<result, exit, workerPc, wdPc, holder>>
       ELSE IF mainPc = "interrupted"
         THEN /\ EnterFinally([kind |-> "escaped", timed_out |-> FALSE, terminated |-> 0])
              /\ UNCHANGED <<rwt, pending, exit, workerPc, wdPc, holder>>
       ELSE /\ ProcessEnds("unhandled")
            /\ UNCHANGED <<mainPc, tracked, rwt, result>>
    /\ UNCHANGED <<timeout_sec, parent_pid, ppid, parentAlive,
                   status, forceCleaned, storeVars, callVars>>

\* the except KeyboardInterrupt block after its cleanup call (cli.py:563-570)
MainInterrupted ==
    /\ Running
    /\ mainPc = "interrupted"
    /\ cl["main"].pc = "ret"
    /\ EnterFinally([kind |-> "interrupted", timed_out |-> FALSE,
                     terminated |-> Cleaned("main")])
    /\ UNCHANGED <<workerPc, wdPc, timeout_sec, parent_pid, ppid, parentAlive,
                   status, pending, holder, rwt, exit,
                   forceCleaned, storeVars, callVars>>

\* the finally block after its cleanup call (cli.py:576-579); an exception
\* that is still in flight then leaves main
MainFinally ==
    /\ Running
    /\ mainPc = "finally"
    /\ cl["main"].pc = "ret"
    /\ IF result.kind = "escaped"
         THEN /\ ProcessEnds("unhandled")
              /\ UNCHANGED <<mainPc, result>>
         ELSE /\ mainPc' = "print"
              /\ cl' = [cl EXCEPT !["main"] = IdleFrame]
              /\ result' = [result EXCEPT !.terminated = @ + Cleaned("main")]
              /\ UNCHANGED <<exit, workerPc, wdPc, pending, holder>>
    /\ UNCHANGED <<timeout_sec, parent_pid, ppid, parentAlive,
                   tracked, status, rwt, forceCleaned, storeVars, callVars>>

\* print the result; return 0 if result.get("success") else 1 (cli.py:581-587)
ExitCode(res) == IF res.kind = "success" THEN "0" ELSE "1"

MainReturn ==
    /\ Running
    /\ mainPc = "print"
    /\ mainPc' = "done"
    /\ ProcessEnds(ExitCode(result))
    /\ UNCHANGED <<timeout_sec, parent_pid, ppid, parentAlive,
                   tracked, status, rwt, result, forceCleaned, storeVars, callVars>>

(* --------------------------- Parent Watchdog ---------------------------- *)
\* a changed test that only looks for init: `current_ppid in (0, 1)`
ParentDivergedInitOnly == ppid \in {0, 1}

\* `current_ppid in (0, 1) or current_ppid != parent_pid` (cli.py:183-185)
ParentDiverged == ppid \in {0, 1} \/ ppid # parent_pid[1]

\* one poll of _watch_parent_exit that finds the parent gone: _force_exit
\* starts with its cleanup call (cli.py:181-186, 77-79).  A poll that finds
\* the parent in place sleeps and changes nothing.
WatchdogPoll ==
    /\ Running
    /\ wdPc = "poll"
    /\ ParentDiverged
    /\ wdPc' = "force"
    /\ cl' = [cl EXCEPT !["wd"] = EnterCleanup("watchdog")]
    /\ tracked' = CollectPrune
    /\ UNCHANGED <<mainPc, workerPc, timeout_sec, parent_pid, ppid, parentAlive,
                   status, pending, holder, rwt, result, exit,
                   forceCleaned, storeVars, callVars>>

\* os._exit(code) after the cleanup call of _force_exit (cli.py:82)
WatchdogExit ==
    /\ Running
    /\ wdPc = "force"
    /\ cl["wd"].pc = "ret"
    /\ forceCleaned' = TRUE
    /\ ProcessEnds("130")
    /\ UNCHANGED <<mainPc, timeout_sec, parent_pid, ppid, parentAlive,
                   tracked, status, rwt, result, storeVars, callVars>>

(* ------------------------- specifications (Part I) --------------------- *)
Cleanup(t) == TermPass(t) \/ WaitPass(t) \/ KillPass(t) \/ FinalCollect(t)

\* the main thread when no interrupt arrives and the parent is in place
MainCore ==
    \/ MainCaptureParent \/ MainStartWatchdog
    \/ MainInstallHandlers \/ MainParse \/ MainCmdRejected \/ MainCmdCall
    \/ RwtSync \/ RwtReject \/ RwtStartWorker \/ RwtJoinReturns \/ RwtAfterJoin
    \/ RwtRaiseTimeout \/ MainCmdReturns \/ MainFinally
    \/ MainReturn \/ Cleanup("main")

MainSteps == MainCore \/ MainInterrupted

MainThread == MainSteps \/ MainPdeathRace

MainUninterrupted == MainCore \/ MainPdeathRace

WatchdogThread == WatchdogPoll \/ Cleanup("wd") \/ WatchdogExit

OperationRest == OpRegister \/ OpFinish("value") \/ OpFinish("error") \/ WorkerExit

Operation == OpSpawn \/ OperationRest

Subprocesses == \E p \in Procs : SubprocessExit(p) \/ SubprocessKilled(p)

Init == ProcInit /\ StoreIdle /\ CallIdle

\* Spec: the whole invocation.
Next ==
    \/ MainThread \/ WatchdogThread \/ Operation
    \/ ParentExit \/ PdeathsigBeforeHandlers \/ Interrupt \/ Subprocesses

Spec == Init /\ [][Next]_vars

\* SpecExec: an invocation whose parent (an ordinary shell or tool) stays for
\* the whole run, so that the watchdog thread only sleeps.
InitExec == Init /\ ppid = 2

NextExec == MainSteps \/ Operation \/ Interrupt \/ Subprocesses

SpecExec == InitExec /\ [][NextExec]_vars

\* FairExec: SpecExec with the main thread scheduled fairly (the join returns
\* when its time is up, the grace period of a cleanup ends) and every child
\* that was sent SIGKILL dying.  Nothing is assumed of the operation: it may
\* run forever.
FairExec ==
    /\ SpecExec
    /\ WF_vars(MainSteps)
    /\ \A p \in Procs : WF_vars(SubprocessKilled(p))

\* FairWatch: the whole invocation without interrupt signals, the operation
\* spawning at most MaxWatchProcs children, with the main thread and the
\* watchdog thread scheduled fairly.
WatchSpawn == OpSpawnUpTo(MaxWatchProcs)

NextWatch ==
    \/ MainUninterrupted \/ WatchdogThread \/ WatchSpawn \/ OperationRest
    \/ ParentExit \/ PdeathsigBeforeHandlers \/ Subprocesses

FairWatch ==
    /\ Init /\ [][NextWatch]_vars
    /\ WF_vars(MainUninterrupted)
    /\ WF_vars(WatchdogThread)

(* ===================================================================== *)
(* Part I: properties                                                    *)
(* ===================================================================== *)
PositiveTimeout == timeout_sec # None /\ timeout_sec[1] > 0

LiveTracked == {p \in tracked : PollIsNone(p)}

\* C1: with a positive timeout a call of _run_with_timeout reports one
\* outcome, once: a value or an error only if that is what the worker stored
\* and the worker had ended when the caller looked, with no timeout detected;
\* the timeout error only after the timeout path; what was reported never
\* changes afterwards, whatever the worker stores later, and main never
\* reports success without a returned value.
C1_ExactlyOneOutcome ==
    [][ PositiveTimeout =>
          /\ (rwt.outcome # "none" => rwt'.outcome = rwt.outcome)
          /\ (rwt.outcome = "none" /\ rwt'.outcome \in {"value", "error"}
                => /\ holder = rwt'.outcome
                   /\ workerPc = "dead"
                   /\ rwt'.cleanup = "no")
          /\ (rwt.outcome = "none" /\ rwt'.outcome = "timeout"
                => rwt.cleanup = "called")
          /\ (rwt'.outcome \in {"value", "error"} => rwt'.cleanup = "no")
          /\ (result'.kind = "success" => rwt'.outcome = "value")
      ]_vars

\* witness of C1: the timeout was reported and the worker stored a value later
C1_Witness ==
    /\ PositiveTimeout
    /\ rwt.outcome = "timeout"
    /\ mainPc = "rwt_ret"
    /\ holder = "value"

\* C2 (as claimed): once _run_with_timeout has reported a timeout, no tracked
\* subprocess is alive (collect_live is empty).
C2_NoLiveAfterTimeout ==
    (mainPc = "rwt_ret" /\ rwt.outcome = "timeout") => LiveTracked = {}

\* C3 (as claimed): when the invocation has ended by main returning or by the
\* watchdog's forced exit, no tracked subprocess is still running.
C3_NoLeakAtExit ==
    exit \in {"0", "1", "130"} => \A p \in tracked : status[p] # "running"

\* C4: when the worker has ended by the time the caller looks, the call
\* reports exactly what the worker stored, no cleanup frame is entered and no
\* subprocess changes state by the caller's doing; a value or an error is
\* never reported after the cleanup was called.
C4_InTimeNoCleanup ==
    [][ /\ (mainPc = "check" /\ workerPc = "dead" /\ mainPc' \notin {"check", "interrupted"}
              => /\ mainPc' = "rwt_ret"
                 /\ holder \in {"value", "error"}
                 /\ rwt'.outcome = holder
                 /\ rwt'.cleanup = "no"
                 /\ cl' = cl
                 /\ status' = status
                 /\ tracked' = tracked)
        /\ (rwt'.outcome \in {"value", "error"} => rwt'.cleanup = "no")
      ]_vars

\* witness of C4: the operation spawned children, ended in time and its value
\* was returned with the children untouched
C4_Witness ==
    /\ PositiveTimeout
    /\ mainPc = "rwt_ret"
    /\ rwt.outcome = "value"
    /\ rwt.cleanup = "no"
    /\ \E p \in tracked : status[p] = "running"

\* C5: with a timeout that is present and <= 0 the call fails with the
\* invalid-argument error and nothing was started: no worker, no operation
\* on the main thread, no subprocess, nothing stored.
C5_RejectBeforeWork ==
    (timeout_sec # None /\ timeout_sec[1] <= 0) =>
        /\ workerPc \in {"idle", "gone"}
        /\ mainPc \notin {"sync", "join", "check", "to_cleanup"}
        /\ holder = "empty"
        /\ \A p \in Procs : status[p] = "unborn"
        /\ rwt.outcome \in {"none", "invalid", "interrupted"}
        /\ (mainPc = "rwt_ret" => rwt.outcome = "invalid")

\* witness of C5: the call was made with timeout 0 and failed
C5_Witness ==
    /\ timeout_sec = Some(0)
    /\ mainPc = "rwt_ret"
    /\ rwt.outcome = "invalid"

\* C6: with a positive timeout, a caller waiting in the join eventually gets
\* an outcome (or the process ends), also when the operation never ends.
C6_CallEnds ==
    (mainPc = "join") ~> (rwt.outcome # "none" \/ exit # "none")

\* witness of C6: the call has ended by timeout while the operation still runs
C6_Witness ==
    /\ rwt.outcome = "timeout"
    /\ workerPc = "run"

\* C7: within one cleanup call SIGKILL is sent only in the third pass, after
\* SIGTERM went to every child that was live at the start of the call and
\* after the wait, and only to a child of that set whose poll() is still None.
C7_TermBeforeKill ==
    [][ \A t \in Threads : \A p \in Procs :
          (p \in cl'[t].killed /\ p \notin cl[t].killed)
            => /\ cl[t].pc = "kill"
               /\ cl[t].termed = cl[t].live
               /\ p \in cl[t].live
               /\ PollIsNone(p)
      ]_vars

\* witness of C7: a call over two live children has sent a SIGKILL
C7_Witness ==
    \E t \in Threads : Cardinality(cl[t].live) >= 2 /\ cl[t].killed # {}

C9_NoEscape == exit # "unhandled"

(* ===================================================================== *)
(* Part II: the session store (core/session_manager.py)                  *)
(* ret is what the last operation returned; an operation that returns a  *)
(* Session returns the object the store keeps, which ret names by its id *)
(* in out; a list is returned in listed, a count in count, a flag in     *)
(* deleted                                                               *)
(* ===================================================================== *)
\* values str(uuid.uuid4())[:8] can take
SessionIds == {"s1", "s2"}

Devices == {"d1", "d2"}

\* adapter results handed to update_session; "empty" is {}
Results == {"r1"}

\* the status argument of update_session: None or a string
StatusArgs == {"None", "active", "completed"}

\* ended after an operation has returned the session id (or none)
EndedAfter(o) ==
    IF o # None /\ sessions'[o[1]].status \in {"completed", "expired"}
    THEN ended \cup {o[1]}
    ELSE ended

Put(d, k, v) == [x \in DOMAIN d \cup {k} |-> IF x = k THEN v ELSE d[x]]

Del(d, K) == [x \in DOMAIN d \ K |-> d[x]]

\* `time.time() - session.updated_at > self.expire_seconds`
Stale(s) == now - s.updated_at > ExpireSeconds

\* a changed constructor call: created_at is left at the epoch
NewSessionEpoch(dev) ==
    [device_id |-> dev, created_at |-> 0, updated_at |-> now,
     status |-> "active", step_count |-> 0, last_result |-> "empty",
     history |-> << >>]

\* Session(...) as create_session builds it, with the dataclass defaults;
\* provider and task are written once and never read by the store, they are
\* left out
NewSession(dev) ==
    [device_id |-> dev, created_at |-> now, updated_at |-> now,
     status |-> "active", step_count |-> 0, last_result |-> "empty",
     history |-> << >>]

\* a file that open(session_file, "w") has truncated and json.dump has not
\* finished writing
Torn == [torn |-> TRUE]

\* what _load_sessions reads from the storage directory: a file that is not
\* valid JSON is skipped, a stale session is marked expired in memory only
Loaded ==
    [id \in {i \in DOMAIN disk : disk[i] # Torn} |->
        IF Stale(disk[id]) THEN [disk[id] EXCEPT !.status = "expired"]
        ELSE disk[id]]

\* SessionManager(...): __init__ calls _load_sessions
Construct ==
    /\ sessions' = Loaded
    /\ ret' = [op |-> "init", id |-> "-", out |-> None]
    /\ UNCHANGED <<disk, now, ended, procVars, callVars>>

\* create_session(device_id, provider, task)
CreateSessionEffect(id, dev) ==
    /\ sessions' = Put(sessions, id, NewSession(dev))
    /\ disk' = Put(disk, id, NewSession(dev))
    /\ ret' = [op |-> "create", id |-> id, out |-> Some(id)]
    /\ ended' = ended \ {id}

CreateSession(id, dev) ==
    /\ CreateSessionEffect(id, dev)
    /\ UNCHANGED <<now, procVars, callVars>>

\* a changed get_session that does not save the expiry it detects
GetSessionNoSave(id) ==
    /\ IF id \notin DOMAIN sessions
       THEN /\ ret' = [op |-> "get", id |-> id, out |-> None]
            /\ UNCHANGED <<sessions, disk>>
       ELSE /\ sessions' = IF Stale(sessions[id])
                           THEN [sessions EXCEPT ![id].status = "expired"]
                           ELSE sessions
            /\ ret' = [op |-> "get", id |-> id, out |-> Some(id)]
            /\ UNCHANGED disk
    /\ ended' = EndedAfter(ret'.out)
    /\ UNCHANGED <<now, procVars, callVars>>

\* get_session(session_id)
GetSessionEffect(id) ==
    /\ IF id \notin DOMAIN sessions
       THEN /\ ret' = [op |-> "get", id |-> id, out |-> None]
            /\ UNCHANGED <<sessions, disk>>
       ELSE IF Stale(sessions[id])
       THEN LET s == [sessions[id] EXCEPT !.status = "expired"]
            IN  /\ sessions' = Put(sessions, id, s)
                /\ disk' = Put(disk, id, s)
                /\ ret' = [op |-> "get", id |-> id, out |-> Some(id)]
       ELSE /\ ret' = [op |-> "get", id |-> id, out |-> Some(id)]
            /\ UNCHANGED <<sessions, disk>>
    /\ ended' = EndedAfter(ret'.out)

GetSession(id) ==
    /\ GetSessionEffect(id)
    /\ UNCHANGED <<now, procVars, callVars>>

\* a changed update that does not append to the history
UpdatedNoHistory(s, res, st) ==
    [s EXCEPT !.updated_at = now,
              !.step_count = @ + 1,
              !.last_result = res,
              !.status = IF st = "None" THEN @ ELSE st]

\* a changed update that numbers the history entry before it adds 1 to
\* step_count
UpdatedStepBefore(s, res, st) ==
    [s EXCEPT !.updated_at = now,
              !.step_count = @ + 1,
              !.last_result = res,
              !.history = Append(@, [step |-> s.step_count,
                                     timestamp |-> now,
                                     result |-> res]),
              !.status = IF st = "None" THEN @ ELSE st]

\* the session update_session leaves for a known id
Updated(s, res, st) ==
    [s EXCEPT !.updated_at = now,
              !.step_count = @ + 1,
              !.last_result = res,
              !.history = Append(@, [step |-> s.step_count + 1,
                                     timestamp |-> now,
                                     result |-> res]),
              !.status = IF st = "None" THEN @ ELSE st]

\* update_session(session_id, result, status)
UpdateSessionEffect(op, id, res, st) ==
    /\ IF id \notin DOMAIN sessions
       THEN /\ ret' = [op |-> op, id |-> id, out |-> None]
            /\ UNCHANGED <<sessions, disk>>
       ELSE /\ sessions' = Put(sessions, id, Updated(sessions[id], res, st))
            /\ disk' = Put(disk, id, Updated(sessions[id], res, st))
            /\ ret' = [op |-> op, id |-> id, out |-> Some(id)]
    /\ ended' = EndedAfter(ret'.out)

\* the store's own step: step_count is kept within MaxSteps
UpdateSessionAs(op, id, res, st) ==
    /\ id \in DOMAIN sessions => sessions[id].step_count < MaxSteps
    /\ UpdateSessionEffect(op, id, res, st)
    /\ UNCHANGED <<now, procVars, callVars>>

UpdateSession(id, res, st) == UpdateSessionAs("update", id, res, st)

\* complete_session(session_id)
CompleteSession(id) == UpdateSessionAs("complete", id, "empty", "completed")

\* the ids of the sessions list_active_sessions marks expired
ExpiredByList == {id \in DOMAIN sessions :
                    sessions[id].status = "active" /\ Stale(sessions[id])}

\* the ids of the sessions list_active_sessions returns
ActiveByList == {id \in DOMAIN sessions :
                    sessions[id].status = "active" /\ ~Stale(sessions[id])}

\* the store after list_active_sessions(); what was marked expired is saved
ListEffect ==
    /\ sessions' = [id \in DOMAIN sessions |->
                      IF id \in ExpiredByList
                      THEN [sessions[id] EXCEPT !.status = "expired"]
                      ELSE sessions[id]]
    /\ disk' = [id \in DOMAIN disk \cup ExpiredByList |->
                      IF id \in ExpiredByList
                      THEN [sessions[id] EXCEPT !.status = "expired"]
                      ELSE disk[id]]

\* list_active_sessions()
ListActiveSessions ==
    /\ ListEffect
    /\ ret' = [op |-> "list", id |-> "-", listed |-> ActiveByList]
    /\ UNCHANGED <<now, ended, procVars, callVars>>

\* get_latest_session(device_id); "" stands for a device_id that is not given.
\* max() takes the first of the sessions with the greatest updated_at in the
\* order of the dict; the order is not kept here, any of them may be returned
GetLatestSessionEffect(dev) ==
    /\ ListEffect
    /\ LET active == IF dev = "" THEN ActiveByList
                     ELSE {id \in ActiveByList : sessions[id].device_id = dev}
           latest == {id \in active :
                        \A o \in active : sessions[o].updated_at <= sessions[id].updated_at}
       IN  IF active = {}
           THEN ret' = [op |-> "latest", id |-> dev, out |-> None]
           ELSE \E id \in latest :
                    ret' = [op |-> "latest", id |-> dev, out |-> Some(id)]
    /\ UNCHANGED ended

GetLatestSession(dev) ==
    /\ GetLatestSessionEffect(dev)
    /\ UNCHANGED <<now, procVars, callVars>>

\* a changed cleanup_expired that leaves the files in place
CleanupExpiredMemoryOnly ==
    LET expired_ids == {id \in DOMAIN sessions : Stale(sessions[id])}
    IN  /\ sessions' = Del(sessions, expired_ids)
        /\ ret' = [op |-> "cleanup", id |-> "-", count |-> Cardinality(expired_ids)]
        /\ ended' = ended \ expired_ids
        /\ UNCHANGED <<disk, now, procVars, callVars>>

\* cleanup_expired()
CleanupExpired ==
    LET expired_ids == {id \in DOMAIN sessions : Stale(sessions[id])}
    IN  /\ sessions' = Del(sessions, expired_ids)
        /\ disk' = Del(disk, expired_ids)
        /\ ret' = [op |-> "cleanup", id |-> "-", count |-> Cardinality(expired_ids)]
        /\ ended' = ended \ expired_ids
        /\ UNCHANGED <<now, procVars, callVars>>

\* delete_session(session_id)
DeleteSession(id) ==
    /\ IF id \notin DOMAIN sessions
       THEN /\ ret' = [op |-> "delete", id |-> id, deleted |-> FALSE]
            /\ UNCHANGED <<sessions, disk>>
       ELSE /\ sessions' = Del(sessions, {id})
            /\ disk' = Del(disk, {id})
            /\ ret' = [op |-> "delete", id |-> id, deleted |-> TRUE]
    /\ ended' = ended \ {id}
    /\ UNCHANGED <<now, procVars, callVars>>

\* time passes
Tick ==
    /\ now < MaxTime
    /\ now' = now + 1
    /\ UNCHANGED <<sessions, disk, ret, ended, procVars, callVars>>

\* the operations of the store, with sessions created under the ids of `ids`
\* for the devices of `devs`
StoreOpOn(ids, devs) ==
    \/ \E id \in ids, dev \in devs : CreateSession(id, dev)
    \/ \E id \in SessionIds : GetSession(id)
    \/ \E id \in SessionIds, r \in Results, st \in StatusArgs : UpdateSession(id, r, st)
    \/ \E id \in SessionIds : CompleteSession(id)
    \/ ListActiveSessions
    \/ \E dev \in Devices \cup {""} : GetLatestSession(dev)
    \/ CleanupExpired
    \/ \E id \in SessionIds : DeleteSession(id)

StoreOp == StoreOpOn(SessionIds, Devices)

InitStore ==
    /\ ProcInit
    /\ timeout_sec = None
    /\ ppid = 2
    /\ StoreIdle
    /\ CallIdle

NextStore == StoreOp \/ Construct \/ Tick

SpecStore == InitStore /\ [][NextStore]_vars

\* the store with one session at a time: every session is created under the
\* same id, the other id stays unknown
NextSolo == StoreOpOn({"s1"}, {"d1"}) \/ Construct \/ Tick

SpecStoreSolo == InitStore /\ [][NextSolo]_vars

\* the store with two sessions of one device
NextPair == StoreOpOn(SessionIds, {"d1"}) \/ Construct \/ Tick

SpecStorePair == InitStore /\ [][NextPair]_vars

(* ===================================================================== *)
(* Part II: properties                                                   *)
(* ===================================================================== *)
\* C10 (as claimed): a step of a store operation other than the creation of
\* a session changes the status of a session it keeps only from active to
\* completed or from active to expired.
C10_StatusOnlyEnds ==
    [][ ret'.op \notin {"create", "init"} =>
          \A id \in DOMAIN sessions \cap DOMAIN sessions' :
              sessions'[id].status # sessions[id].status
                => /\ sessions[id].status = "active"
                   /\ sessions'[id].status \in {"completed", "expired"}
      ]_vars

\* age of a session: now minus updated_at
Age(s) == now - s.updated_at

\* results update_session can be given
AnyResult == Results \cup {"empty"}

\* C12: a step of update_session on a known id adds 1 to step_count, sets
\* updated_at to the current time, appends one history entry
\* {step = new step_count, timestamp = updated_at, result}, replaces
\* last_result, leaves the same session on disk and returns it; on an unknown
\* id it returns None and leaves memory and disk as they were.
C12_UpdateAdvances ==
    [][ \A id \in SessionIds : \A res \in AnyResult : \A st \in StatusArgs :
          (/\ ret'.op \in {"update", "complete"}
           /\ \/ UpdateSession(id, res, st)
              \/ (res = "empty" /\ st = "completed" /\ CompleteSession(id)))
            => IF id \in DOMAIN sessions
               THEN /\ id \in DOMAIN sessions'
                    /\ sessions'[id].step_count = sessions[id].step_count + 1
                    /\ sessions'[id].updated_at = now
                    /\ sessions'[id].history =
                          Append(sessions[id].history,
                                 [step |-> sessions'[id].step_count,
                                  timestamp |-> sessions'[id].updated_at,
                                  result |-> res])
                    /\ sessions'[id].last_result = res
                    /\ id \in DOMAIN disk' /\ disk'[id] = sessions'[id]
                    /\ ret'.out = Some(id)
               ELSE /\ ret'.out = None
                    /\ sessions' = sessions
                    /\ disk' = disk
      ]_vars

\* witness of C12: update_session has advanced a session some time after its
\* creation
C12_Witness ==
    /\ ret.op = "update"
    /\ ret.out # None
    /\ ret.id \in DOMAIN sessions
    /\ sessions[ret.id].step_count = 1
    /\ sessions[ret.id].updated_at > sessions[ret.id].created_at

\* C13: a step of get_session returns None for an unknown id; for a known
\* session older than the TTL it sets status to expired, in memory and on disk,
\* changes no other field and returns it; a session not older than the TTL is
\* returned with memory and disk as they were.
C13_GetExpiresLazily ==
    [][ \A id \in SessionIds :
          (ret'.op = "get" /\ GetSession(id))
            => IF id \notin DOMAIN sessions
               THEN ret'.out = None /\ sessions' = sessions /\ disk' = disk
               ELSE IF Age(sessions[id]) > ExpireSeconds
               THEN /\ ret'.out = Some(id)
                    /\ sessions' = [sessions EXCEPT ![id].status = "expired"]
                    /\ id \in DOMAIN disk'
                    /\ disk'[id] = sessions'[id]
               ELSE /\ ret'.out = Some(id)
                    /\ sessions' = sessions
                    /\ disk' = disk
      ]_vars

\* witness of C13: get_session has returned an active session as expired
C13_Witness ==
    /\ ret.op = "get"
    /\ ret.out # None
    /\ ret.id \in DOMAIN sessions
    /\ sessions[ret.id].status = "expired"
    /\ sessions[ret.id].step_count = 0
    /\ disk[ret.id].status = "expired"

\* C15: a step of cleanup_expired removes from memory and from disk the
\* sessions older than the TTL and no other, returns their number, leaves no
\* session older than the TTL, and what list_active_sessions would return is
\* what it would have returned before.
C15_PurgeRemovesStale ==
    [][ (ret'.op = "cleanup" /\ CleanupExpired) =>
          LET old == {id \in DOMAIN sessions : Age(sessions[id]) > ExpireSeconds}
          IN  /\ DOMAIN sessions' = DOMAIN sessions \ old
              /\ \A id \in DOMAIN sessions' : sessions'[id] = sessions[id]
              /\ DOMAIN disk' = DOMAIN disk \ old
              /\ \A id \in DOMAIN disk' : disk'[id] = disk[id]
              /\ ret'.count = Cardinality(old)
              /\ \A id \in DOMAIN sessions' \cup DOMAIN disk' :
                    ~(now - (IF id \in DOMAIN sessions' THEN sessions'[id] ELSE disk'[id]).updated_at
                        > ExpireSeconds)
              /\ ActiveByList' = ActiveByList
      ]_vars

\* witness of C15: cleanup_expired has removed one session and kept another
C15_Witness ==
    /\ ret.op = "cleanup"
    /\ ret.count = 1
    /\ Cardinality(DOMAIN sessions) = 1
    /\ DOMAIN disk = DOMAIN sessions

\* C16: a step of create_session leaves, in memory and on disk, a session
\* with status active, step_count 0, an empty history and
\* created_at = updated_at, and returns it.
C16_CreateFresh ==
    [][ \A id \in SessionIds : \A dev \in Devices :
          (ret'.op = "create" /\ CreateSession(id, dev))
            => /\ ret'.out = Some(id)
               /\ id \in DOMAIN sessions' /\ id \in DOMAIN disk'
               /\ sessions'[id].status = "active"
               /\ sessions'[id].step_count = 0
               /\ sessions'[id].history = << >>
               /\ sessions'[id].created_at = sessions'[id].updated_at
               /\ sessions'[id].created_at = now
               /\ sessions'[id].device_id = dev
               /\ disk'[id] = sessions'[id]
      ]_vars

\* witness of C16: a session was created some time after the store was set up
C16_Witness ==
    /\ ret.op = "create"
    /\ ret.id \in DOMAIN sessions
    /\ sessions[ret.id].created_at > 0
    /\ sessions[ret.id].step_count = 0
    /\ disk[ret.id] = sessions[ret.id]

\* C14 (as claimed): a step of list_active_sessions returns the sessions that
\* are active and not older than the TTL, sets every active session older than
\* the TTL to expired in memory and on disk, and returns no session that an
\* earlier operation returned as completed or expired.
C14_ListOnlyNeverEnded ==
    [][ (ret'.op = "list" /\ ListActiveSessions) =>
          /\ ret'.listed = {id \in DOMAIN sessions :
                           /\ sessions[id].status = "active"
                           /\ ~(Age(sessions[id]) > ExpireSeconds)}
          /\ \A id \in DOMAIN sessions :
                (sessions[id].status = "active" /\ Age(sessions[id]) > ExpireSeconds)
                  => /\ sessions'[id].status = "expired"
                     /\ disk'[id] = sessions'[id]
          /\ ret'.listed \cap ended = {}
      ]_vars

(* ===================================================================== *)
(* Part II, continued: _save_session step by step                        *)
(* call is the store operation that is saving a session: pc "save_open"  *)
(* before open(session_file, "w"), "save_dump" while json.dump writes,   *)
(* "dead" after the process has ended                                    *)
(* ===================================================================== *)
Saving(op, id) == [pc |-> "save_open", op |-> op, sid |-> id]

\* create_session up to its call of _save_session
CreateBegin(id, dev) ==
    /\ call = Idle
    /\ sessions' = Put(sessions, id, NewSession(dev))
    /\ ended' = ended \ {id}
    /\ call' = Saving("create", id)
    /\ UNCHANGED <<disk, now, ret, out, procVars>>

\* update_session on a known id up to its call of _save_session
UpdateBegin(id, res, st) ==
    /\ call = Idle
    /\ id \in DOMAIN sessions
    /\ sessions[id].step_count < MaxSteps
    /\ sessions' = Put(sessions, id, Updated(sessions[id], res, st))
    /\ call' = Saving("update", id)
    /\ UNCHANGED <<disk, now, ret, ended, out, procVars>>

\* get_session on a stale session up to its call of _save_session
GetExpiredBegin(id) ==
    /\ call = Idle
    /\ id \in DOMAIN sessions
    /\ Stale(sessions[id])
    /\ sessions' = [sessions EXCEPT ![id].status = "expired"]
    /\ call' = Saving("get", id)
    /\ UNCHANGED <<disk, now, ret, ended, out, procVars>>

\* _save_session: open(session_file, "w") truncates the file
SaveOpen ==
    /\ call.pc = "save_open"
    /\ disk' = Put(disk, call.sid, Torn)
    /\ call' = [call EXCEPT !.pc = "save_dump"]
    /\ UNCHANGED <<sessions, now, ret, ended, out, procVars>>

\* _save_session: json.dump has written everything and the file is closed;
\* the operation returns the session
SaveDump ==
    /\ call.pc = "save_dump"
    /\ disk' = Put(disk, call.sid, sessions[call.sid])
    /\ ret' = [op |-> call.op, id |-> call.sid, out |-> Some(call.sid)]
    /\ ended' = IF sessions[call.sid].status \in {"completed", "expired"}
                THEN ended \cup {call.sid} ELSE ended
    /\ call' = Idle
    /\ UNCHANGED <<sessions, now, out, procVars>>

\* KeyboardInterrupt raised by the signal handler while json.dump is writing:
\* the with block closes the file as it is and the operation is abandoned
SaveInterrupted ==
    /\ call.pc = "save_dump"
    /\ call' = Idle
    /\ UNCHANGED <<sessions, disk, now, ret, ended, out, procVars>>

\* the process ends at this point: os._exit(130) in _force_exit, or a signal
ProcessKilled ==
    /\ call.pc # "dead"
    /\ sessions' = EmptyDict
    /\ ended' = {}
    /\ call' = [pc |-> "dead"]
    /\ UNCHANGED <<disk, now, ret, out, procVars>>

\* a later process constructs its SessionManager over the same directory
Relaunch ==
    /\ call.pc = "dead"
    /\ sessions' = Loaded
    /\ ret' = [op |-> "init", id |-> "-", out |-> None]
    /\ call' = Idle
    /\ UNCHANGED <<disk, now, ended, out, procVars>>

\* time passes, whatever the store is doing
TickAnyTime ==
    /\ now < MaxTime
    /\ now' = now + 1
    /\ UNCHANGED <<sessions, disk, ret, ended, callVars, procVars>>

NextSave ==
    \/ \E id \in SessionIds : CreateBegin(id, "d1")
    \/ \E id \in SessionIds, r \in Results, st \in StatusArgs : UpdateBegin(id, r, st)
    \/ \E id \in SessionIds : GetExpiredBegin(id)
    \/ SaveOpen \/ SaveDump \/ SaveInterrupted
    \/ ProcessKilled \/ Relaunch \/ TickAnyTime

SpecSave == InitStore /\ [][NextSave]_vars

\* C17 (as claimed): at every moment every file of the storage directory
\* holds a complete record, the one before or the one after the save.
C17_NoTornRecord ==
    \A id \in DOMAIN disk : disk[id] # Torn

(* ===================================================================== *)
(* Part III: public operations of the executor (core/executor.py)        *)
(* ===================================================================== *)
(* ----------------------- _determine_next_action ------------------------ *)
\* values of the action_type / type entries of an adapter result; "" stands
\* for an entry that is missing, None or empty (all falsy)
ActionTypes == {"", "INFO_ACTION_NEEDS_REPLY", "info_action_needs_reply", "CLICK"}

\* values of the status / state entries of an adapter result
StatusValues == {"", "completed", "done", "success", "Completed", "running"}

\* a result that is not a dict
NotADict ==
    [mapping |-> FALSE, action_type |-> "", type |-> "", status |-> "", state |-> ""]

\* adapter results: dicts with the four entries that are looked at, and NotADict
Payloads ==
    [mapping : {TRUE}, action_type : ActionTypes, type : ActionTypes,
     status : StatusValues, state : StatusValues] \cup {NotADict}

\* Python's `a or b`
PyOr(a, b) == IF a # "" THEN a ELSE b

\* a changed order of the two tests: the completion status is looked at first
DetermineNextActionStatusFirst(r) ==
    IF r.mapping
    THEN IF PyOr(r.status, r.state) \in {"completed", "done", "success"}
         THEN "complete"
         ELSE IF PyOr(r.action_type, r.type) = "INFO_ACTION_NEEDS_REPLY"
         THEN "needs_reply"
         ELSE "continue"
    ELSE "continue"

\* _determine_next_action(result)
DetermineNextAction(r) ==
    IF r.mapping
    THEN IF PyOr(r.action_type, r.type) = "INFO_ACTION_NEEDS_REPLY"
         THEN "needs_reply"
         ELSE IF PyOr(r.status, r.state) \in {"completed", "done", "success"}
         THEN "complete"
         ELSE "continue"
    ELSE "continue"

\* a call of _determine_next_action on the result call.raw
ApplyNextAction ==
    /\ call.pc = "next_action"
    /\ out' = [op |-> "next_action", raw |-> call.raw,
               next_action |-> DetermineNextAction(call.raw)]
    /\ call' = Idle
    /\ UNCHANGED <<procVars, storeVars>>

InitNext ==
    /\ ProcInit
    /\ timeout_sec = None
    /\ ppid = 2
    /\ StoreIdle
    /\ out = NoOut
    /\ \E r \in Payloads : call = [pc |-> "next_action", raw |-> r]

SpecNext == InitNext /\ [][ApplyNextAction]_vars

\* C20: next_action is needs_reply when the result is a mapping whose action
\* type (action_type, else type when action_type is missing) is exactly the
\* needs-reply action; otherwise complete when its status (status, else state
\* when status is missing) is exactly one of completed, done, success;
\* otherwise continue; a result that is not a mapping gives continue.
C20_NextActionByExactMatch ==
    out.op = "next_action" =>
        LET r == out.raw
            action == IF r.action_type # "" THEN r.action_type ELSE r.type
            stat == IF r.status # "" THEN r.status ELSE r.state
        IN  out.next_action =
              CASE ~r.mapping -> "continue"
                [] r.mapping /\ action = "INFO_ACTION_NEEDS_REPLY" -> "needs_reply"
                [] r.mapping /\ action # "INFO_ACTION_NEEDS_REPLY"
                     /\ stat \in {"completed", "done", "success"} -> "complete"
                [] OTHER -> "continue"

\* witness of C20: a result that asks for a reply and has a completed status
\* was mapped to needs_reply
C20_Witness ==
    /\ out.op = "next_action"
    /\ out.raw.type = "INFO_ACTION_NEEDS_REPLY"
    /\ out.raw.action_type = ""
    /\ out.raw.status = "done"
    /\ out.next_action = "needs_reply"

(* ------------- execute_task, continue_session, coordinate tap ---------- *)
(* call while a public operation is inside its try block:                  *)
(*   [pc |-> "adapter", op, sid, persist], sid the session_id of the call   *)
(*   and persist whether a session of the store backs it.                  *)
(* out is the dict the last finished operation returned; a key the dict    *)
(* does not have is a field the record does not have.                      *)

\* successful calls on one session that the executor specifications follow
MaxCalls == 2

\* what the adapter returns, by name; the name is what the store records
AdapterResults == {"done", "more"}

Payload(name) ==
    [mapping |-> TRUE,
     action_type |-> IF name = "reply" THEN "INFO_ACTION_NEEDS_REPLY" ELSE "",
     type |-> "",
     status |-> IF name = "done" THEN "completed" ELSE "",
     state |-> ""]

\* the checks of execute_task before the session is created, by the one that
\* rejects the call
ExecuteChecks == {"ok", "tap_only", "no_provider", "max_steps", "provider", "device"}

\* the checks of continue_session outside its try block
ContinueChecks == {"ok", "tap_only", "max_steps"}

\* the checks of execute_coordinate_tap before the tap
TapChecks == {"ok", "post_delay", "device"}

\* {"success": False, "error": ..., "message": ...}; the error string is kept
\* as the sequence of its parts
Rejected(op, err) == [op |-> op, success |-> FALSE, error |-> err]

\* _tap_only_error_result(command)
TapOnlyErrorResult(op) ==
    [op |-> op, success |-> FALSE, error |-> <<"tap_only_mode_enabled">>,
     session_mode |-> "direct_coordinate_only",
     session_persisted |-> FALSE,
     continuation_supported |-> FALSE]

InCall(op, sid, persist) ==
    [pc |-> "adapter", op |-> op, sid |-> sid, persist |-> persist]

\* a changed execute_task that creates the session of a stateless call too
ExecuteTaskAlwaysCreates(stateless, dev, id, pre) ==
    /\ call = Idle
    /\ IF pre # "ok"
       THEN /\ out' = IF pre = "tap_only" THEN TapOnlyErrorResult("execute")
                       ELSE Rejected("execute", <<pre>>)
            /\ call' = Idle
            /\ UNCHANGED storeVars
       ELSE /\ id \notin DOMAIN sessions \cup DOMAIN disk
            /\ CreateSessionEffect(id, dev)
            /\ call' = InCall("execute", id, ~stateless)
            /\ out' = NoOut
            /\ UNCHANGED now
    /\ UNCHANGED procVars

\* execute_task(task, provider, device_id, max_steps, timeout_sec, extra_info,
\* stateless) up to the call of the adapter; id is the uuid create_session draws
ExecuteTask(stateless, dev, id, pre) ==
    /\ call = Idle
    /\ IF pre # "ok"
       THEN /\ out' = IF pre = "tap_only" THEN TapOnlyErrorResult("execute")
                       ELSE Rejected("execute", <<pre>>)
            /\ call' = Idle
            /\ UNCHANGED storeVars
       ELSE IF stateless
       THEN /\ call' = InCall("execute", "anon", FALSE)
            /\ out' = NoOut
            /\ UNCHANGED storeVars
       ELSE /\ id \notin DOMAIN sessions \cup DOMAIN disk
            /\ CreateSessionEffect(id, dev)
            /\ call' = InCall("execute", id, TRUE)
            /\ out' = NoOut
            /\ UNCHANGED now
    /\ UNCHANGED procVars

\* a changed continue_session without the test of session.status
ContinueSessionAnyStatus(sidOpt, dev, pre) ==
    /\ call = Idle
    /\ IF pre = "tap_only"
       THEN /\ out' = TapOnlyErrorResult("continue")
            /\ call' = Idle
            /\ UNCHANGED storeVars
       ELSE /\ IF sidOpt = None
               THEN GetLatestSessionEffect(dev)
               ELSE GetSessionEffect(sidOpt[1])
            /\ IF ret'.out = None
               THEN /\ out' = Rejected("continue",
                                      IF sidOpt = None THEN <<"No active session found">>
                                      ELSE <<"Session not found", sidOpt[1]>>)
                    /\ call' = Idle
               ELSE LET session == sessions'[ret'.out[1]]
                    IN  IF pre = "max_steps"
                        THEN /\ out' = [op |-> "continue", success |-> FALSE,
                                        session_id |-> ret'.out[1],
                                        error |-> <<"Invalid max_steps">>]
                             /\ call' = Idle
                        ELSE /\ session.step_count < MaxCalls
                             /\ call' = InCall("continue", ret'.out[1], TRUE)
                             /\ out' = NoOut
            /\ UNCHANGED now
    /\ UNCHANGED procVars

\* continue_session(session_id, reply, task, device_id, max_steps, timeout_sec)
\* up to its try block
ContinueSession(sidOpt, dev, pre) ==
    /\ call = Idle
    /\ IF pre = "tap_only"
       THEN /\ out' = TapOnlyErrorResult("continue")
            /\ call' = Idle
            /\ UNCHANGED storeVars
       ELSE /\ IF sidOpt = None
               THEN GetLatestSessionEffect(dev)
               ELSE GetSessionEffect(sidOpt[1])
            /\ IF ret'.out = None
               THEN /\ out' = Rejected("continue",
                                      IF sidOpt = None THEN <<"No active session found">>
                                      ELSE <<"Session not found", sidOpt[1]>>)
                    /\ call' = Idle
               ELSE LET session == sessions'[ret'.out[1]]
                    IN  IF session.status # "active"
                        THEN /\ out' = Rejected("continue",
                                               <<"Session is", session.status>>)
                             /\ call' = Idle
                        ELSE IF pre = "max_steps"
                        THEN /\ out' = [op |-> "continue", success |-> FALSE,
                                        session_id |-> ret'.out[1],
                                        error |-> <<"Invalid max_steps">>]
                             /\ call' = Idle
                        ELSE /\ session.step_count < MaxCalls
                             /\ call' = InCall("continue", ret'.out[1], TRUE)
                             /\ out' = NoOut
            /\ UNCHANGED now
    /\ UNCHANGED procVars

\* execute_coordinate_tap(x, y, coord_space, device_id, timeout_sec,
\* post_delay_ms) up to its try block
ExecuteCoordinateTap(pre) ==
    /\ call = Idle
    /\ IF pre # "ok"
       THEN /\ out' = Rejected("tap", <<pre>>)
            /\ call' = Idle
       ELSE /\ call' = InCall("tap", "anon", FALSE)
            /\ out' = NoOut
    /\ UNCHANGED <<storeVars, procVars>>

\* the dict _process_result returns
Processed(op, sid, name, step_count, persist_session) ==
    [op |-> op, success |-> TRUE, session_id |-> sid,
     step_count |-> step_count,
     next_action |-> DetermineNextAction(Payload(name)),
     session_mode |-> IF persist_session THEN "stateful" ELSE "stateless",
     session_persisted |-> persist_session,
     continuation_supported |-> persist_session,
     timed_out |-> FALSE, raw_result |-> name]

\* a changed _process_result that reports the step count before the update
ProcessResultOldCount(name) ==
    /\ call.pc = "adapter"
    /\ call.op \in {"execute", "continue"}
    /\ IF call.persist
       THEN /\ UpdateSessionEffect("update", call.sid, name,
                    IF DetermineNextAction(Payload(name)) = "complete"
                    THEN "completed" ELSE "active")
            /\ out' = Processed(call.op, call.sid, name,
                                sessions[call.sid].step_count, TRUE)
       ELSE /\ out' = Processed(call.op, call.sid, name, 1, FALSE)
            /\ UNCHANGED <<sessions, disk, ret, ended>>
    /\ call' = Idle
    /\ UNCHANGED <<now, procVars>>

\* a changed _process_result that also closes the session when the adapter
\* asks for a reply
ProcessResultClosesOnReply(name) ==
    /\ call.pc = "adapter"
    /\ call.op \in {"execute", "continue"}
    /\ IF call.persist
       THEN /\ UpdateSessionEffect("update", call.sid, name,
                    IF DetermineNextAction(Payload(name)) \in {"complete", "needs_reply"}
                    THEN "completed" ELSE "active")
            /\ out' = Processed(call.op, call.sid, name,
                                IF ret'.out # None
                                THEN sessions'[call.sid].step_count ELSE 1,
                                TRUE)
       ELSE /\ out' = Processed(call.op, call.sid, name, 1, FALSE)
            /\ UNCHANGED <<sessions, disk, ret, ended>>
    /\ call' = Idle
    /\ UNCHANGED <<now, procVars>>

\* the adapter returns the result called name: _process_result
ProcessResult(name) ==
    /\ call.pc = "adapter"
    /\ call.op \in {"execute", "continue"}
    /\ IF call.persist
       THEN /\ UpdateSessionEffect("update", call.sid, name,
                    IF DetermineNextAction(Payload(name)) = "complete"
                    THEN "completed" ELSE "active")
            /\ out' = Processed(call.op, call.sid, name,
                                IF ret'.out # None
                                THEN sessions'[call.sid].step_count ELSE 1,
                                TRUE)
       ELSE /\ out' = Processed(call.op, call.sid, name, 1, FALSE)
            /\ UNCHANGED <<sessions, disk, ret, ended>>
    /\ call' = Idle
    /\ UNCHANGED <<now, procVars>>

\* a changed except clause that records the failure in the session as a step
CallFailsRecorded(kind) ==
    /\ call.pc = "adapter"
    /\ out' = [op |-> call.op, success |-> FALSE,
               session_id |-> call.sid, error |-> <<kind>>,
               timed_out |-> (kind = "timeout")]
    /\ IF call.persist
       THEN UpdateSessionEffect("update", call.sid, kind, "active")
       ELSE UNCHANGED <<sessions, disk, ret, ended>>
    /\ call' = Idle
    /\ UNCHANGED <<now, procVars>>

\* the try block raises (the adapter fails, the device is gone, or
\* _run_with_timeout raises OperationTimeoutError): the error_result of the
\* except clause
CallFails(kind) ==
    /\ call.pc = "adapter"
    /\ LET error_result == [op |-> call.op, success |-> FALSE,
                            session_id |-> call.sid, error |-> <<kind>>,
                            timed_out |-> (kind = "timeout")]
           flags(mode) == [op |-> call.op, success |-> FALSE,
                           session_id |-> call.sid, error |-> <<kind>>,
                           timed_out |-> (kind = "timeout"),
                           session_mode |-> mode,
                           session_persisted |-> FALSE,
                           continuation_supported |-> FALSE]
       IN  out' = IF call.op = "tap" THEN flags("direct_coordinate")
                  ELSE IF call.op = "execute" /\ ~call.persist THEN flags("stateless")
                  ELSE error_result
    /\ call' = Idle
    /\ UNCHANGED <<storeVars, procVars>>

\* _tap_once returned: the result of execute_coordinate_tap
TapReturns ==
    /\ call.pc = "adapter"
    /\ call.op = "tap"
    /\ out' = [op |-> "tap", success |-> TRUE, session_id |-> call.sid,
               step_count |-> 1, next_action |-> "continue",
               session_mode |-> "direct_coordinate",
               session_persisted |-> FALSE,
               continuation_supported |-> FALSE,
               timed_out |-> FALSE, raw_result |-> "tap"]
    /\ call' = Idle
    /\ UNCHANGED <<storeVars, procVars>>

\* the next command runs in a new process, which loads the store again
NewProcess ==
    /\ call = Idle
    /\ Construct

CallsOn(ids) ==
    \/ \E st \in BOOLEAN, id \in ids, pre \in ExecuteChecks :
          ExecuteTask(st, "d1", id, pre)
    \/ \E sidOpt \in {None} \cup {Some(id) : id \in ids},
          dev \in {"", "d1"}, pre \in ContinueChecks :
          ContinueSession(sidOpt, dev, pre)
    \/ \E pre \in TapChecks : ExecuteCoordinateTap(pre)
    \/ \E name \in AdapterResults : ProcessResult(name)
    \/ \E kind \in {"error", "timeout"} : CallFails(kind)
    \/ TapReturns
    \/ NewProcess
    \/ TickAnyTime

\* the public operations on a store of at most one session
NextCalls == CallsOn({"s1"})

SpecCalls == InitStore /\ [][NextCalls]_vars

\* stateful calls that pass their checks, on a store of at most two sessions
NextCallsPair ==
    \/ \E id \in SessionIds : ExecuteTask(FALSE, "d1", id, "ok")
    \/ \E sidOpt \in {None} \cup {Some(id) : id \in SessionIds} :
          ContinueSession(sidOpt, "", "ok")
    \/ \E name \in AdapterResults : ProcessResult(name)
    \/ CallFails("error")
    \/ NewProcess
    \/ TickAnyTime

SpecCallsPair == InitStore /\ [][NextCallsPair]_vars

StatelessStep ==
    \/ \E id \in SessionIds, pre \in ExecuteChecks : ExecuteTask(TRUE, "d1", id, pre)
    \/ \E pre \in TapChecks : ExecuteCoordinateTap(pre)
    \/ /\ call.pc = "adapter"
       /\ ~call.persist
       /\ \/ \E name \in AdapterResults : ProcessResult(name)
          \/ \E kind \in {"error", "timeout"} : CallFails(kind)
          \/ TapReturns

\* the result reports session_persisted = false and
\* continuation_supported = false
ReportsNotPersisted(o) ==
    /\ "session_persisted" \in DOMAIN o
    /\ o.session_persisted = FALSE
    /\ "continuation_supported" \in DOMAIN o
    /\ o.continuation_supported = FALSE

C19_StepCountReported ==
    [][ /\ \A name \in AdapterResults :
             ProcessResult(name) =>
               IF call.persist
               THEN /\ sessions'[call.sid].step_count = sessions[call.sid].step_count + 1
                    /\ Len(sessions'[call.sid].history) = Len(sessions[call.sid].history) + 1
                    /\ \A id \in DOMAIN sessions \ {call.sid} : sessions'[id] = sessions[id]
                    /\ out'.success
                    /\ out'.step_count = sessions'[call.sid].step_count
                    /\ out'.step_count = disk'[call.sid].step_count
                    /\ call.op = "execute" => out'.step_count = 1
               ELSE out'.success /\ out'.step_count = 1
        /\ TapReturns => out'.success /\ out'.step_count = 1
        /\ ~(call.pc = "adapter" /\ call.persist /\ \E name \in AdapterResults : ProcessResult(name)) =>
             /\ \A id \in DOMAIN sessions \cap DOMAIN sessions' :
                    sessions'[id].step_count = sessions[id].step_count
             /\ \A id \in DOMAIN sessions' \ DOMAIN sessions :
                    sessions'[id].step_count = 0
      ]_vars

\* witness of C19: the second successful call on a session, a
\* continue_session, returned step_count 2
C19_Witness ==
    /\ call = Idle
    /\ out.op = "continue"
    /\ out.success
    /\ out.step_count = 2
    /\ sessions[out.session_id].step_count = 2
    /\ Len(sessions[out.session_id].history) = 2

(* ===================================================================== *)
(* Part IV: device selection and tap coordinates (core/executor.py)      *)
(* ===================================================================== *)
(* --------------------------- _select_device ---------------------------- *)
\* ids a device can have; "" stands for a device_id or a default_device_id
\* that is None or empty (both falsy)
DeviceIds == {"d1", "d2", "d3"}

\* longest list of connected devices
MaxConnected == 3

Range(s) == {s[i] : i \in DOMAIN s}

\* what list_devices() can return: the connected ids, each once
DeviceLists ==
    {s \in UNION {[1..n -> DeviceIds] : n \in 0..MaxConnected} :
        \A i, j \in DOMAIN s : i # j => s[i] # s[j]}

\* the device _select_device returns
Selected(d) == [success |-> TRUE, device |-> d, kind |-> "", listed |-> << >>]

\* the ExecutorError _select_device raises, with the devices its message lists
Unavailable(kind, listed) ==
    [success |-> FALSE, device |-> "", kind |-> kind, listed |-> listed]

\* _ensure_device_connected(device_id), then `return device_id`; adb is
\* false when list_devices() raises because adb cannot be run
EnsureDeviceConnected(device_id, adb, devices) ==
    IF ~adb THEN Unavailable("adb", << >>)
    ELSE IF devices = << >> THEN Unavailable("no devices", << >>)
    ELSE IF device_id \notin Range(devices)
    THEN Unavailable("not connected", devices)
    ELSE Selected(device_id)

\* a changed order: the configured default is looked at before the explicit id
SelectDeviceDefaultFirst(device_id, default_device_id, adb, devices) ==
    IF default_device_id # ""
    THEN EnsureDeviceConnected(default_device_id, adb, devices)
    ELSE IF device_id # ""
    THEN EnsureDeviceConnected(device_id, adb, devices)
    ELSE IF ~adb THEN Unavailable("adb", << >>)
    ELSE IF devices = << >> THEN Unavailable("no devices", << >>)
    ELSE IF Len(devices) > 1 THEN Unavailable("ambiguous", devices)
    ELSE Selected(devices[1])

\* a changed auto-detection: the first of several devices is taken
SelectDeviceFirstOfMany(device_id, default_device_id, adb, devices) ==
    IF device_id # ""
    THEN EnsureDeviceConnected(device_id, adb, devices)
    ELSE IF default_device_id # ""
    THEN EnsureDeviceConnected(default_device_id, adb, devices)
    ELSE IF ~adb THEN Unavailable("adb", << >>)
    ELSE IF devices = << >> THEN Unavailable("no devices", << >>)
    ELSE Selected(devices[1])

\* _select_device(device_id) with skill_config.default_device_id and the
\* devices list_devices() returns
SelectDevice(device_id, default_device_id, adb, devices) ==
    IF device_id # ""
    THEN EnsureDeviceConnected(device_id, adb, devices)
    ELSE IF default_device_id # ""
    THEN EnsureDeviceConnected(default_device_id, adb, devices)
    ELSE IF ~adb THEN Unavailable("adb", << >>)
    ELSE IF devices = << >> THEN Unavailable("no devices", << >>)
    ELSE IF Len(devices) > 1 THEN Unavailable("ambiguous", devices)
    ELSE Selected(devices[1])

\* a call of _select_device on the arguments held in call
ApplySelectDevice ==
    /\ call.pc = "select_device"
    /\ out' = [op |-> "select_device", args |-> call,
               selected |-> SelectDevice(call.device_id, call.default_device_id,
                                         call.adb, call.devices)]
    /\ call' = Idle
    /\ UNCHANGED <<procVars, storeVars>>

InitDevice ==
    /\ ProcInit
    /\ timeout_sec = None
    /\ ppid = 2
    /\ StoreIdle
    /\ out = NoOut
    /\ \E d \in DeviceIds \cup {""}, c \in DeviceIds \cup {""},
          a \in BOOLEAN, l \in DeviceLists :
          call = [pc |-> "select_device", device_id |-> d,
                  default_device_id |-> c, adb |-> a, devices |-> l]

SpecDevice == InitDevice /\ [][ApplySelectDevice]_vars

\* C21: device selection follows the precedence explicit id, configured
\* default, sole detected device. With an explicit id the result is that id
\* (when it is connected) or a failure, whatever the default and the other
\* devices are; with no explicit id and a default the result is the default
\* (when it is connected) or a failure; only with neither is the sole
\* connected device returned. A returned device is always connected.
C21_DevicePrecedence ==
    out.op = "select_device" =>
        LET a == out.args
            r == out.selected
            connected == IF a.adb THEN Range(a.devices) ELSE {}
        IN  /\ r.success => r.device \in connected
            /\ a.device_id # "" =>
                 /\ r.success <=> a.device_id \in connected
                 /\ r.success => r.device = a.device_id
            /\ (a.device_id = "" /\ a.default_device_id # "") =>
                 /\ r.success <=> a.default_device_id \in connected
                 /\ r.success => r.device = a.default_device_id
            /\ (r.success /\ r.device \notin {a.device_id, a.default_device_id}) =>
                 /\ a.device_id = "" /\ a.default_device_id = ""
                 /\ a.devices = <<r.device>>

\* witness of C21: the explicit id is not connected, the default is, and the
\* selection failed
C21_Witness ==
    /\ out.op = "select_device"
    /\ out.args.device_id = "d1"
    /\ out.args.default_device_id = "d2"
    /\ out.args.adb
    /\ out.args.devices = <<"d2">>
    /\ ~out.selected.success

\* C22: with no explicit id and no configured default, selection fails with
\* "no devices" when nothing is connected, fails as ambiguous and lists every
\* connected device when more than one is connected, and returns the sole
\* device when exactly one is connected.
C22_AutoDetect ==
    (/\ out.op = "select_device"
     /\ out.args.device_id = "" /\ out.args.default_device_id = ""
     /\ out.args.adb) =>
        LET devices == out.args.devices
            r == out.selected
        IN  /\ Len(devices) = 0 => ~r.success /\ r.kind = "no devices"
            /\ Len(devices) > 1 =>
                 /\ ~r.success
                 /\ r.kind = "ambiguous"
                 /\ r.listed = devices
            /\ Len(devices) = 1 => r.success /\ r.device = devices[1]

\* witness of C22: two devices are connected and both are listed in the
\* failure
C22_Witness ==
    /\ out.op = "select_device"
    /\ out.args.device_id = "" /\ out.args.default_device_id = ""
    /\ out.args.adb
    /\ Len(out.args.devices) = 2
    /\ ~out.selected.success
    /\ Range(out.selected.listed) = Range(out.args.devices)

(* ----------------------- _resolve_tap_coordinate ----------------------- *)
(* Coordinates are given in quarters: x4 stands for the float x = x4 / 4.   *)
(* Quarters and their products with a screen dimension are exact as        *)
(* floats, so round() is computed here as Python computes it.               *)

\* largest small screen dimension that is tried (next to 1080 by 2400)
MaxDim == 3

\* a changed rounding: int() alone, which cuts the fraction off
PyRoundTruncates(n4) ==
    IF n4 >= 0 THEN n4 \div 4 ELSE -((-n4) \div 4)

\* int(round(raw)) for raw = n4 / 4: to the nearest integer, a half to the
\* even neighbour
PyRound(n4) ==
    LET q == n4 \div 4
        r == n4 % 4
    IN  IF r < 2 THEN q
        ELSE IF r > 2 THEN q + 1
        ELSE IF q % 2 = 0 THEN q ELSE q + 1

\* a changed test: one axis in the ratio range is enough
EffectiveSpaceEitherAxis(x4, y4, coord_space) ==
    IF coord_space = "auto"
    THEN IF (0 <= x4 /\ x4 <= 4) \/ (0 <= y4 /\ y4 <= 4) THEN "ratio" ELSE "pixel"
    ELSE coord_space

\* effective_space: "ratio" if (0.0 <= x <= 1.0 and 0.0 <= y <= 1.0) else
\* "pixel" when coord_space is "auto"
EffectiveSpace(x4, y4, coord_space) ==
    IF coord_space = "auto"
    THEN IF (0 <= x4 /\ x4 <= 4) /\ (0 <= y4 /\ y4 <= 4) THEN "ratio" ELSE "pixel"
    ELSE coord_space

\* a changed ratio mapping that scales by the dimension itself
RatioRawByDimension(c4, dimension) == c4 * dimension

\* raw = coordinate * (dimension - 1), in quarters
RatioRaw(c4, dimension) == c4 * (dimension - 1)

\* a changed clamp that lets every value through
ClampNothing(dimension, rounded) == rounded

\* max(0, min(dimension - 1, rounded))
Clamp(dimension, rounded) ==
    LET low == IF dimension - 1 < rounded THEN dimension - 1 ELSE rounded
    IN  IF 0 > low THEN 0 ELSE low

\* a changed flag that looks at the x axis only
IsClampedOnX(tap, computed) == tap.x # computed.x

\* (tap_x != rounded_x) or (tap_y != rounded_y)
IsClamped(tap, computed) == tap.x # computed.x \/ tap.y # computed.y

\* _resolve_tap_coordinate(x, y, coord_space, screen_width, screen_height)
ResolveTapCoordinate(x4, y4, coord_space, screen_width, screen_height) ==
    IF screen_width <= 0 \/ screen_height <= 0
    THEN [raised |-> "Invalid screen size"]
    ELSE LET effective_space == EffectiveSpace(x4, y4, coord_space)
         IN  IF effective_space \notin {"ratio", "pixel"}
             THEN [raised |-> "Unsupported coord_space"]
             ELSE LET raw_x4 == IF effective_space = "ratio"
                                THEN RatioRaw(x4, screen_width) ELSE x4
                      raw_y4 == IF effective_space = "ratio"
                                THEN RatioRaw(y4, screen_height) ELSE y4
                      computed == [x |-> PyRound(raw_x4), y |-> PyRound(raw_y4)]
                      tap == [x |-> Clamp(screen_width, computed.x),
                              y |-> Clamp(screen_height, computed.y)]
                  IN  [raised |-> "",
                       effective_coord_space |-> effective_space,
                       computed |-> computed,
                       tap |-> tap,
                       clamped |-> IsClamped(tap, computed)]

\* a call of _resolve_tap_coordinate on the arguments held in call
ApplyResolveTapCoordinate ==
    /\ call.pc = "resolve_tap"
    /\ out' = [op |-> "resolve_tap", args |-> call,
               coord_detail |-> ResolveTapCoordinate(call.x4, call.y4, call.coord_space,
                                                     call.screen_width, call.screen_height)]
    /\ call' = Idle
    /\ UNCHANGED <<procVars, storeVars>>

\* x and y from -0.5 to past the largest small screen, and 900 and 1900;
\* the screen from 0 to MaxDim on each axis, and 1080 by 2400
InitTap ==
    /\ ProcInit
    /\ timeout_sec = None
    /\ ppid = 2
    /\ StoreIdle
    /\ out = NoOut
    /\ \E x4 \in (-2..(4 * MaxDim + 2)) \cup {3600},
          y4 \in (-2..(4 * MaxDim + 2)) \cup {7600},
          space \in {"auto", "ratio", "pixel", "percent"},
          w \in (0..MaxDim) \cup {1080},
          h \in (0..MaxDim) \cup {2400} :
          call = [pc |-> "resolve_tap", x4 |-> x4, y4 |-> y4, coord_space |-> space,
                  screen_width |-> w, screen_height |-> h]

SpecTap == InitTap /\ [][ApplyResolveTapCoordinate]_vars

\* a Coordinate Resolution Result was returned
Resolved == out.op = "resolve_tap" /\ out.coord_detail.raised = ""

\* C23: for every x, y and coordinate space and every screen with width > 0
\* and height > 0, the tap point of a result has 0 <= tap.x <= width - 1 and
\* 0 <= tap.y <= height - 1.
C23_TapOnScreen ==
    Resolved =>
        /\ out.args.screen_width > 0 /\ out.args.screen_height > 0
        /\ 0 <= out.coord_detail.tap.x
        /\ out.coord_detail.tap.x <= out.args.screen_width - 1
        /\ 0 <= out.coord_detail.tap.y
        /\ out.coord_detail.tap.y <= out.args.screen_height - 1

\* witness of C23: a pixel coordinate far off a small screen was resolved
C23_Witness ==
    /\ Resolved
    /\ out.args.x4 = 3600
    /\ out.args.screen_width = 2
    /\ out.coord_detail.effective_coord_space = "pixel"
    /\ out.coord_detail.tap.x = 1

\* C24: in every result, clamped is true exactly when the computed (rounded)
\* point differs from the tap point on at least one axis.
C24_ClampedIffMoved ==
    Resolved =>
        (out.coord_detail.clamped
            <=> (\/ out.coord_detail.computed.x # out.coord_detail.tap.x
                 \/ out.coord_detail.computed.y # out.coord_detail.tap.y))

\* witness of C24: only the y axis was clamped
C24_Witness ==
    /\ Resolved
    /\ out.coord_detail.clamped
    /\ out.coord_detail.computed.x = out.coord_detail.tap.x
    /\ out.coord_detail.computed.y # out.coord_detail.tap.y

\* C25: with space auto the effective space is ratio exactly when both x and
\* y lie in [0, 1], and pixel otherwise; with an explicit space the effective
\* space is the requested one.
C25_AutoSpace ==
    Resolved =>
        LET a == out.args
            bothInUnit == 0 <= a.x4 /\ a.x4 <= 4 /\ 0 <= a.y4 /\ a.y4 <= 4
        IN  out.coord_detail.effective_coord_space =
              IF a.coord_space = "auto"
              THEN IF bothInUnit THEN "ratio" ELSE "pixel"
              ELSE a.coord_space

\* witness of C25: auto with x in [0, 1] and y = 1900 resolved as pixel
C25_Witness ==
    /\ Resolved
    /\ out.args.coord_space = "auto"
    /\ out.args.x4 = 3 /\ out.args.y4 = 7600
    /\ out.coord_detail.effective_coord_space = "pixel"

\* c is a nearest integer to n4 / 4
Nearest(c, n4) == 4 * c - n4 <= 2 /\ n4 - 4 * c <= 2

\* C26: the computed point is the nearest integer to coordinate *
\* (dimension - 1) in ratio space and to the coordinate in pixel space, and
\* the tap point is that value clamped into [0, dimension - 1]; for ratio
\* x = 0.5, y = 0.5 on 1080 by 2400 the computed point has x in {539, 540}
\* and y in {1199, 1200}, the tap point equals it and clamped is false.
C26_NearestThenClamp ==
    Resolved =>
        LET a == out.args
            d == out.coord_detail
            ratio == d.effective_coord_space = "ratio"
            InRange(v, dim) == IF v < 0 THEN 0 ELSE IF v > dim - 1 THEN dim - 1 ELSE v
        IN  /\ Nearest(d.computed.x, IF ratio THEN a.x4 * (a.screen_width - 1) ELSE a.x4)
            /\ Nearest(d.computed.y, IF ratio THEN a.y4 * (a.screen_height - 1) ELSE a.y4)
            /\ d.tap.x = InRange(d.computed.x, a.screen_width)
            /\ d.tap.y = InRange(d.computed.y, a.screen_height)
            /\ (/\ a.coord_space = "ratio" /\ a.x4 = 2 /\ a.y4 = 2
                /\ a.screen_width = 1080 /\ a.screen_height = 2400) =>
                 /\ d.computed.x \in {539, 540}
                 /\ d.computed.y \in {1199, 1200}
                 /\ d.tap = d.computed
                 /\ ~d.clamped

\* witness of C26: ratio 0.5, 0.5 on 1080 by 2400 was resolved
C26_Witness ==
    /\ Resolved
    /\ out.args.coord_space = "ratio"
    /\ out.args.x4 = 2 /\ out.args.y4 = 2
    /\ out.args.screen_width = 1080 /\ out.args.screen_height = 2400
    /\ out.coord_detail.computed = [x |-> 540, y |-> 1200]

\* C27 (as claimed): for space ratio with x = 1.5 and y = 0.5, on every
\* valid screen size, the result has clamped true and tap.x = width - 1.
C27_ClampedOnEveryScreen ==
    (/\ Resolved
     /\ out.args.coord_space = "ratio"
     /\ out.args.x4 = 6 /\ out.args.y4 = 2) =>
        /\ out.coord_detail.clamped
        /\ out.coord_detail.tap.x = out.args.screen_width - 1

\* C27 (amended): for space ratio with x = 1.5 and y = 0.5 the result has
\* tap.x = width - 1 on every valid screen, and clamped true on every screen
\* of width 2 or more; on a screen of width 1 the computed x is 0, nothing is
\* clamped and clamped is false.
C27_ClampedFromWidthTwo ==
    (/\ Resolved
     /\ out.args.coord_space = "ratio"
     /\ out.args.x4 = 6 /\ out.args.y4 = 2) =>
        /\ out.coord_detail.tap.x = out.args.screen_width - 1
        /\ out.coord_detail.clamped <=> out.args.screen_width >= 2

\* witness of C27: x = 1.5 was clamped to the right edge of a 1080 screen
C27_Witness ==
    /\ Resolved
    /\ out.args.coord_space = "ratio"
    /\ out.args.x4 = 6 /\ out.args.y4 = 2
    /\ out.args.screen_width = 1080
    /\ out.coord_detail.clamped
    /\ out.coord_detail.tap.x = 1079

(* ===================================================================== *)
(* Part I, continued: what cleanup_tracked_subprocesses returns          *)
(* ===================================================================== *)
\* the step enters a call of cleanup_tracked_subprocesses on thread t
CleanupEntered(t) ==
    /\ cl'[t] # cl[t]
    /\ cl'[t].pc # "idle"
    /\ cl'[t].termed = {} /\ cl'[t].checked = {}
    /\ \/ cl[t].pc = "idle"
       \/ cl[t].site # cl'[t].site
       \/ cl[t].termed # {}

\* C28: cleanup returns the number of tracked handles that were live at the
\* start of the call, 0 when none is live: the handles counted are the
\* tracked ones whose poll() is None when the call starts, the count stays
\* what it is while they exit or are killed, and it is the value handed to
\* the caller (the timeout error, the interrupted result, the finally block).
C28_CleanupCountsLiveAtStart ==
    [][ /\ \A t \in Threads :
             /\ CleanupEntered(t) =>
                  /\ cl'[t].live = {p \in tracked : status[p] \in {"running", "dying"}}
                  /\ cl'[t].live = {} <=> cl'[t].pc = "ret"
             /\ (~CleanupEntered(t) /\ cl[t].pc # "idle" /\ cl'[t].pc # "idle") =>
                  cl'[t].live = cl[t].live
        /\ (rwt' # rwt /\ rwt'.cleanup = "returned") =>
             /\ cl["main"].pc = "ret"
             /\ rwt'.cleaned = Cardinality(cl["main"].live)
        /\ (result'.kind = "interrupted" /\ result.kind # "interrupted") =>
             /\ cl["main"].pc = "ret"
             /\ result'.terminated = Cardinality(cl["main"].live)
      ]_vars

\* witness of C28: a cleanup is about to return 2 after one child exited in
\* the grace period and the other needed SIGKILL
C28_Witness ==
    /\ mainPc = "to_cleanup"
    /\ cl["main"].pc = "ret"
    /\ Cardinality(cl["main"].live) = 2
    /\ Cardinality(cl["main"].killed) = 1

\* C29 (as claimed): cleanup_tracked_subprocesses is idempotent.  When a call
\* is entered right after an earlier call of the same thread has returned and
\* every tracked handle was already in the earlier call's live set (nothing
\* was registered in between), the second call finds nothing live and returns
\* 0; a call that returns 0 has signalled no child.
C29_CleanupIdempotent ==
    [][ \A t \in Threads :
          /\ (CleanupEntered(t) /\ cl[t].pc = "ret" /\ tracked \subseteq cl[t].live) =>
                /\ cl'[t].live = {}
                /\ cl'[t].pc = "ret"
          /\ (cl'[t].pc = "ret" /\ cl'[t].live = {}) =>
                /\ cl'[t].termed = {}
                /\ cl'[t].killed = {}
      ]_vars

(* ===================================================================== *)
(* Part III, continued: the arguments max_steps and timeout_sec          *)
(* ===================================================================== *)
(* max_steps and timeout_sec are << >> (None) or <<n>>.                   *)

\* SkillConfig.default_max_steps
default_max_steps == 20

\* SkillConfig.default_operation_timeout_sec
default_operation_timeout_sec == None

\* Python's `value or default` on an optional int: None and 0 are falsy
OrDefault(value, default) ==
    IF value = None THEN default
    ELSE IF value[1] = 0 THEN default
    ELSE value[1]

\* the max_steps the operation goes on with (executor.py:689-692, 816)
EffectiveMaxSteps(max_steps, stateless) ==
    OrDefault(max_steps, IF stateless THEN Min({default_max_steps, 4})
                         ELSE default_max_steps)

\* the timeout_sec handed to _run_with_timeout (executor.py:675-679, 824-828)
EffectiveTimeout(t) == IF t # None THEN t ELSE default_operation_timeout_sec

\* execute_task with its arguments, up to the call of the adapter.  pre is the
\* outcome of the checks that do not depend on max_steps and timeout_sec; the
\* checks run in the order of the code: tap-only mode, provider configured,
\* max_steps, provider valid, device selected; then the session is created
\* and the try block calls _run_with_timeout, which raises before it calls
\* func when the timeout is not positive.
ExecuteTaskWith(stateless, dev, id, pre, max_steps, t) ==
    IF pre \in {"tap_only", "no_provider"}
      THEN ExecuteTask(stateless, dev, id, pre)
    ELSE IF EffectiveMaxSteps(max_steps, stateless) <= 0
      THEN ExecuteTask(stateless, dev, id, "max_steps")
    ELSE IF pre # "ok"
      THEN ExecuteTask(stateless, dev, id, pre)
    ELSE IF ~NonPositive(EffectiveTimeout(t))
      THEN ExecuteTask(stateless, dev, id, "ok")
    ELSE /\ call = Idle
         /\ call' = Idle
         /\ IF stateless
            THEN /\ out' = [op |-> "execute", success |-> FALSE,
                            session_id |-> "anon", error |-> <<"timeout_sec">>,
                            timed_out |-> FALSE,
                            session_mode |-> "stateless",
                            session_persisted |-> FALSE,
                            continuation_supported |-> FALSE]
                 /\ UNCHANGED storeVars
            ELSE /\ id \notin DOMAIN sessions \cup DOMAIN disk
                 /\ CreateSessionEffect(id, dev)
                 /\ out' = [op |-> "execute", success |-> FALSE,
                            session_id |-> id, error |-> <<"timeout_sec">>,
                            timed_out |-> FALSE]
                 /\ UNCHANGED now
         /\ UNCHANGED procVars

\* continue_session with its arguments, up to the call of the adapter: the
\* session is looked up and its status tested before max_steps is; the try
\* block tests the device and then calls _run_with_timeout.
ContinueSessionWith(sidOpt, dev, pre, max_steps, t) ==
    IF pre = "tap_only"
      THEN ContinueSession(sidOpt, dev, pre)
    ELSE IF EffectiveMaxSteps(max_steps, FALSE) <= 0
      THEN ContinueSession(sidOpt, dev, "max_steps")
    ELSE IF ~NonPositive(EffectiveTimeout(t))
      THEN ContinueSession(sidOpt, dev, "ok")
    ELSE /\ call = Idle
         /\ call' = Idle
         /\ IF sidOpt = None
            THEN GetLatestSessionEffect(dev)
            ELSE GetSessionEffect(sidOpt[1])
         /\ IF ret'.out = None
            THEN out' = Rejected("continue",
                                 IF sidOpt = None THEN <<"No active session found">>
                                 ELSE <<"Session not found", sidOpt[1]>>)
            ELSE LET session == sessions'[ret'.out[1]]
                 IN  IF session.status # "active"
                     THEN out' = Rejected("continue", <<"Session is", session.status>>)
                     ELSE \E kind \in {"device", "timeout_sec"} :
                            out' = [op |-> "continue", success |-> FALSE,
                                    session_id |-> ret'.out[1],
                                    error |-> <<kind>>, timed_out |-> FALSE]
         /\ UNCHANGED now
         /\ UNCHANGED procVars

\* the public operations with their arguments, on a store of at most one
\* session
NextArgs ==
    \/ \E st \in BOOLEAN, pre \in ExecuteChecks \ {"max_steps"},
          max_steps \in TimeoutValues, t \in TimeoutValues :
          ExecuteTaskWith(st, "d1", "s1", pre, max_steps, t)
    \/ \E sidOpt \in {None, Some("s1")}, pre \in ContinueChecks \ {"max_steps"},
          max_steps \in TimeoutValues, t \in TimeoutValues :
          ContinueSessionWith(sidOpt, "", pre, max_steps, t)
    \/ \E name \in AdapterResults : ProcessResult(name)
    \/ \E kind \in {"error", "timeout"} : CallFails(kind)
    \/ NewProcess
    \/ TickAnyTime

SpecArgs == InitStore /\ [][NextArgs]_vars

\* the call returned a failure, the adapter was not invoked, no session was
\* created and none advanced
RejectedWithoutEffect ==
    /\ call' = Idle
    /\ out'.op # "none"
    /\ out'.success = FALSE
    /\ DOMAIN sessions' \subseteq DOMAIN sessions
    /\ DOMAIN disk' \subseteq DOMAIN disk
    /\ \A id \in DOMAIN sessions' : sessions'[id].step_count = sessions[id].step_count

\* C30 (as claimed): execute_task and continue_session called with
\* max_steps <= 0 or timeout_sec <= 0 return a failure without invoking the
\* adapter and without creating or advancing any session.
C30_InvalidRejectedFirst ==
    [][ /\ \A st \in BOOLEAN, pre \in ExecuteChecks \ {"max_steps"},
             max_steps \in TimeoutValues, t \in TimeoutValues :
             ( /\ NonPositive(max_steps) \/ NonPositive(t)
               /\ ExecuteTaskWith(st, "d1", "s1", pre, max_steps, t) )
             => RejectedWithoutEffect
        /\ \A sidOpt \in {None, Some("s1")}, pre \in ContinueChecks \ {"max_steps"},
             max_steps \in TimeoutValues, t \in TimeoutValues :
             ( /\ NonPositive(max_steps) \/ NonPositive(t)
               /\ ContinueSessionWith(sidOpt, "", pre, max_steps, t) )
             => RejectedWithoutEffect
      ]_vars

(* ===================================================================== *)
(* Part V: what the public operations hand back                          *)
(* ===================================================================== *)
(* An outcome is what a call ends in:                                      *)
(*   kind "dict"   : a result dict; keys is the set of its keys among      *)
(*                   success, error and message, success the value of its  *)
(*                   success flag (FALSE when the key is absent);          *)
(*   kind "list"   : a plain list (list_devices);                          *)
(*   kind "raised" : an exception of class exc left the call.              *)
(* A path names the branch of the code the call takes.                     *)

Dict(success, keys) ==
    [kind |-> "dict", exc |-> "", success |-> success, keys |-> keys]

Raises(exc) == [kind |-> "raised", exc |-> exc, success |-> FALSE, keys |-> {}]

\* a failure dict with "error" and "message"
ErrorAndMessage == Dict(FALSE, {"success", "error", "message"})

\* a failure dict with "error" only
ErrorOnly == Dict(FALSE, {"success", "error"})

\* the branches of each public method of GUIAgentExecutor.
\* "device" is an ExecutorError of _select_device, "device_crash" any other
\* exception list_devices lets through (executor.py:258-265).
ExecutorPaths ==
    [execute_task |-> {"tap_only", "no_provider", "max_steps", "provider", "device",
                       "device_crash", "adapter_error", "timeout", "ok"},
     continue_session |-> {"tap_only", "not_found", "not_active", "max_steps",
                           "device", "adapter_error", "timeout", "ok"},
     execute_coordinate_tap |-> {"post_delay", "device", "device_crash",
                                 "state_error", "timeout", "ok"},
     get_device_status |-> {"device", "device_crash", "state_error", "ok"},
     list_devices |-> {"no_adb", "adb_failed", "device_crash", "ok", "ok_empty"},
     list_sessions |-> {"ok"},
     list_providers |-> {"ok"}]

\* what the method returns or raises on the path
ExecutorOutcome(op, path) ==
    IF op = "list_devices"
      THEN IF path \in {"no_adb", "adb_failed"} THEN Raises("ExecutorError")
           ELSE IF path = "device_crash" THEN Raises("Exception")
           ELSE [kind |-> "list", exc |-> "", success |-> FALSE, keys |-> {}]
    ELSE IF op \in {"list_sessions", "list_providers"}
      THEN [kind |-> "list", exc |-> "", success |-> FALSE, keys |-> {}]
    ELSE IF path = "device_crash"
      THEN Raises("Exception")
    ELSE IF path = "ok"
      THEN Dict(TRUE, IF op = "get_device_status" THEN {"success"}
                      ELSE {"success", "message"})
    ELSE IF op = "get_device_status"
      THEN ErrorOnly
    ELSE ErrorAndMessage

\* the commands of the CLI and the method each one calls
Commands ==
    [execute |-> "execute_task", continue |-> "continue_session",
     tap |-> "execute_coordinate_tap", status |-> "get_device_status",
     devices |-> "list_devices", sessions |-> "list_sessions",
     providers |-> "list_providers"]

\* what a command does before it calls the method: "ok" when it gets there,
\* else the constructor's failure (no config file, no gui_agent_forge), the
\* validation that rejects the arguments, or SIGINT during the command
CommandChecks(cmd) ==
    {"ok", "interrupted"}
      \cup (IF cmd # "providers" THEN {"no_config", "no_forge"} ELSE {})
      \cup (IF cmd \in {"execute", "continue", "tap"} THEN {"timeout_sec"} ELSE {})
      \cup (IF cmd \in {"execute", "continue"} THEN {"max_steps"} ELSE {})
      \cup (IF cmd = "execute" THEN {"extra_info"} ELSE {})
      \cup (IF cmd = "tap" THEN {"post_delay_ms"} ELSE {})

\* cmd_execute, cmd_continue, cmd_status, cmd_tap, cmd_devices, cmd_sessions,
\* cmd_providers
CommandOutcome(cmd, check, path) ==
    IF check = "no_config" THEN Raises("Exception")
    ELSE IF check = "no_forge" THEN Raises("ExecutorError")
    ELSE IF check = "interrupted" THEN Raises("KeyboardInterrupt")
    ELSE IF check # "ok" THEN ErrorOnly
    ELSE LET o == ExecutorOutcome(Commands[cmd], path)
         IN  IF o.kind # "list" THEN o
             ELSE IF cmd = "devices" /\ path = "ok_empty" THEN ErrorOnly
             ELSE Dict(TRUE, {"success"})

\* main: the try statement around args.func(args) (cli.py:559-579)
MainOutcome(o) ==
    IF o.kind # "raised" THEN o
    ELSE IF o.exc = "KeyboardInterrupt" THEN ErrorAndMessage
    ELSE ErrorOnly

\* the calls followed: a method of the executor called directly, or a command
\* run through main
PublicCalls ==
    {[pc |-> "public", layer |-> "executor", op |-> op, check |-> "ok", path |-> path] :
        op \in DOMAIN ExecutorPaths \ {"list_sessions", "list_providers"}, path \in UNION {ExecutorPaths[o] : o \in DOMAIN ExecutorPaths}}
    \cup
    {[pc |-> "public", layer |-> "cli", op |-> cmd, check |-> check, path |-> path] :
        cmd \in DOMAIN Commands, check \in UNION {CommandChecks(c) : c \in DOMAIN Commands},
        path \in UNION {ExecutorPaths[o] : o \in DOMAIN ExecutorPaths}}

ValidPublicCall(c) ==
    IF c.layer = "executor"
      THEN c.path \in ExecutorPaths[c.op]
      ELSE /\ c.check \in CommandChecks(c.op)
           /\ c.path \in ExecutorPaths[Commands[c.op]]
           /\ c.check # "ok" => c.path = "ok"

ApplyPublic ==
    /\ call.pc = "public"
    /\ out' = [op |-> "public", args |-> call,
               outcome |-> IF call.layer = "executor"
                           THEN ExecutorOutcome(call.op, call.path)
                           ELSE MainOutcome(CommandOutcome(call.op, call.check, call.path))]
    /\ call' = Idle
    /\ UNCHANGED <<procVars, storeVars>>

InitPublic ==
    /\ ProcInit
    /\ timeout_sec = None
    /\ ppid = 2
    /\ StoreIdle
    /\ out = NoOut
    /\ call \in {c \in PublicCalls : ValidPublicCall(c)}

SpecPublic == InitPublic /\ [][ApplyPublic]_vars

Returned == out.op = "public"

\* C31 (as claimed): every public operation and CLI command ends in a result
\* dict carrying a success flag and, when success is false, both an error
\* string and a message; no exception leaves the call.
C31_ResultShape ==
    Returned =>
        /\ out.outcome.kind = "dict"
        /\ "success" \in out.outcome.keys
        /\ ~out.outcome.success => {"error", "message"} \subseteq out.outcome.keys

(* ------------------- the invocation of the adapter --------------------- *)
(* The adapter is outside the program: what each of its entry points does  *)
(* when called is an input.  log is the sequence of the invocations made,  *)
(* each [entry, outcome]; raised the exception that leaves, "" for none.   *)

\* how an entry point of the adapter ends
AdapterOutcomes == {"value", "TypeError", "Exception"}

\* getattr(adapter, "_run_loop", None): absent, a callable, or an attribute
\* that is not callable
RunLoopKinds == {"absent", "callable", "attribute"}

Invoked(entry, outcome) == [entry |-> entry, outcome |-> outcome]

Ended(log) ==
    [log |-> log,
     raised |-> IF log[Len(log)].outcome = "value" THEN "" ELSE log[Len(log)].outcome]

\* _start_adapter_task(adapter, device_id, task, max_steps, extra_info,
\* reset_environment); first and second are the outcomes of the first and of
\* the second invocation, should there be one
StartAdapterTask(reset_environment, run_loop, first, second) ==
    IF reset_environment = None
      THEN Ended(<<Invoked("start_task", first)>>)
    ELSE IF run_loop = "callable"
      THEN IF first = "TypeError"
           THEN Ended(<<Invoked("_run_loop", first), Invoked("start_task", second)>>)
           ELSE Ended(<<Invoked("_run_loop", first)>>)
    ELSE Ended(<<Invoked("start_task", first)>>)

\* the lambda execute_task hands to _run_with_timeout (executor.py:737-744)
\* and the one of continue_session (executor.py:843-849)
AdapterCall(op, stateless, run_loop, first, second) ==
    IF op = "continue"
      THEN Ended(<<Invoked("continue_task", first)>>)
      ELSE StartAdapterTask(IF stateless THEN Some(FALSE) ELSE None,
                            run_loop, first, second)

ApplyAdapterCall ==
    /\ call.pc = "adapter_call"
    /\ out' = [op |-> "adapter_call", args |-> call,
               made |-> AdapterCall(call.op, call.stateless, call.run_loop,
                                    call.first, call.second)]
    /\ call' = Idle
    /\ UNCHANGED <<procVars, storeVars>>

InitAdapter ==
    /\ ProcInit
    /\ timeout_sec \in {None, Some(1)}
    /\ ppid = 2
    /\ StoreIdle
    /\ out = NoOut
    /\ \E op \in {"execute", "continue"}, stateless \in BOOLEAN,
          run_loop \in RunLoopKinds, first \in AdapterOutcomes,
          second \in AdapterOutcomes :
          /\ op = "continue" => ~stateless
          /\ call = [pc |-> "adapter_call", op |-> op, stateless |-> stateless,
                     run_loop |-> run_loop, first |-> first, second |-> second]

SpecAdapter == InitAdapter /\ [][ApplyAdapterCall]_vars

\* C32 (as claimed): within one execute_task or continue_session call the
\* adapter is invoked at most once, and no invocation follows one that raised.
C32_NoRetry ==
    out.op = "adapter_call" =>
        /\ Len(out.made.log) <= 1
        /\ \A i \in 1..Len(out.made.log) :
              out.made.log[i].outcome # "value" => i = Len(out.made.log)

(* ===================================================================== *)
(* Part I, continued: the parent watchdog                                *)
(* ===================================================================== *)

\* the direct parent is still the live process whose id was captured at startup
ParentInPlace == parentAlive /\ parent_pid # None /\ ppid = parent_pid[1]

\* C33 (as claimed): the watchdog never starts its forced exit while the
\* direct parent is still the same live process that was captured at
\* startup, whatever positive id was captured (1 included).
C33_NoExitWhileParentInPlace ==
    (wdPc = "force" \/ (exit = "130" /\ forceCleaned)) => ~ParentInPlace

\* SpecRegistry: the whole invocation (main thread, worker, watchdog,
\* interrupts, parent exit) started by an ordinary parent; the operation
\* spawns at most MaxWatchProcs children
NextRegistry ==
    \/ MainThread \/ WatchdogThread \/ WatchSpawn \/ OperationRest
    \/ ParentExit \/ Interrupt \/ Subprocesses

SpecRegistry == InitExec /\ [][NextRegistry]_vars

\* a step in which thread t runs _collect_live_subprocesses: the one that
\* opens a cleanup call or the one that closes it
Collects(t) ==
    \/ CleanupEntered(t)
    \/ cl[t].pc = "final" /\ cl'[t].pc = "ret"

\* C34: the registry never loses a handle.  The set changes only by a
\* registration, which adds the handle just created and removes nothing, or
\* by a collect, which removes exactly the members whose poll() is no longer
\* None; the collect that opens a cleanup returns exactly the members that
\* are alive.  So a registered handle stays until a collect observes it dead.
C34_RegistryKeepsLiveHandles ==
    [][ /\ tracked' # tracked =>
              \/ /\ pending # 0
                 /\ tracked' = tracked \cup {pending}
              \/ /\ \E t \in Threads : Collects(t)
                 /\ tracked' = {p \in tracked : status[p] \in {"running", "dying"}}
        /\ \A t \in Threads :
              Collects(t) =>
                 /\ tracked' = {p \in tracked : status[p] \in {"running", "dying"}}
                 /\ CleanupEntered(t) => cl'[t].live = tracked'
        /\ \A p \in Procs :
              (p \in tracked /\ status'[p] \in {"running", "dying"}) => p \in tracked'
      ]_vars

\* the cleanups of the main thread and of the watchdog have both collected
\* child 1 alive, the watchdog's is still under way, and a collect has
\* discarded the child after it died
C34_Witness ==
    /\ 1 \in cl["main"].live
    /\ 1 \in cl["wd"].live
    /\ cl["wd"].pc \notin {"idle", "ret"}
    /\ status[1] = "dead"
    /\ 1 \notin tracked

\* the children created so far
Spawned == {p \in Procs : status[p] # "unborn"}

\* C35 (as claimed): terminated_subprocesses in the result of main counts
\* distinct processes.  The final cleanup of main, entered right after the
\* interrupt cleanup has returned, counts none of the processes that one has
\* counted, and the count main prints never exceeds the number of children
\* that were created during the invocation.
C35_CountsDistinct ==
    [][ /\ (mainPc = "interrupted" /\ mainPc' = "finally" /\ cl["main"].pc = "ret") =>
              cl'["main"].live \cap cl["main"].live = {}
        /\ mainPc' = "print" => result'.terminated <= Cardinality(Spawned)
      ]_vars

(* ===================================================================== *)
(* Part III, continued: a call that fails and the worker it leaves       *)
(* ===================================================================== *)

\* _run_with_timeout raises OperationTimeoutError while its worker is still
\* inside the adapter (executor.py:630-652): the except clause of the
\* operation builds the error_result and the daemon worker runs on
CallTimesOut ==
    /\ call.pc = "adapter"
    /\ call.op \in {"execute", "continue"}
    /\ out' = IF call.persist
              THEN [op |-> call.op, success |-> FALSE,
                    session_id |-> call.sid, error |-> <<"timeout">>,
                    timed_out |-> TRUE]
              ELSE [op |-> call.op, success |-> FALSE,
                    session_id |-> call.sid, error |-> <<"timeout">>,
                    timed_out |-> TRUE,
                    session_mode |-> "stateless",
                    session_persisted |-> FALSE,
                    continuation_supported |-> FALSE]
    /\ call' = Idle
    /\ workerPc' = "run"
    /\ holder' = "empty"
    /\ UNCHANGED <<mainPc, wdPc, timeout_sec, parent_pid, ppid, parentAlive,
                   tracked, status, pending, cl, rwt, result, exit,
                   forceCleaned, storeVars>>

\* stateful calls on a store of at most one session; a call ends with the
\* adapter's result, with an exception or with a timeout, and the worker a
\* timeout leaves behind ends by itself (OpFinish, WorkerExit)
NextAbandon ==
    \/ ExecuteTask(FALSE, "d1", "s1", "ok")
    \/ \E sidOpt \in {None, Some("s1")} : ContinueSession(sidOpt, "", "ok")
    \/ \E name \in AdapterResults : ProcessResult(name)
    \/ CallFails("error")
    \/ CallTimesOut
    \/ OpFinish("value") \/ OpFinish("error")
    \/ WorkerExit
    \/ TickAnyTime

SpecAbandon == InitStore /\ [][NextAbandon]_vars

\* C36: a call of execute_task or continue_session that ends in a failure
\* after the adapter was invoked (the adapter raised, or the call timed out)
\* leaves every session, in memory and on disk, exactly as it was when the
\* adapter was invoked; and the worker a timeout has left behind changes no
\* session when it ends later.
C36_FailureLeavesSession ==
    [][ /\ (call.pc = "adapter" /\ call' = Idle /\ out'.success = FALSE) =>
              /\ sessions' = sessions
              /\ disk' = disk
        /\ (workerPc \in {"run", "stored"} /\ workerPc' # workerPc) =>
              /\ sessions' = sessions
              /\ disk' = disk
      ]_vars

\* a continuation of a session that has one step timed out, the session is
\* as that step left it, and the abandoned worker has since stored a result
C36_Witness ==
    /\ out.op = "continue"
    /\ out.success = FALSE
    /\ out.error = <<"timeout">>
    /\ holder = "value"
    /\ workerPc = "dead"
    /\ "s1" \in DOMAIN sessions
    /\ sessions["s1"].step_count = 1
    /\ sessions["s1"].status = "active"
    /\ disk["s1"] = sessions["s1"]

(* ------------------ the session after a successful call ---------------- *)

\* stateful calls on a store of at most one session, with an adapter that
\* reports the task done, under way, or waiting for a reply
NextOutcome ==
    \/ ExecuteTask(FALSE, "d1", "s1", "ok")
    \/ \E sidOpt \in {None, Some("s1")} : ContinueSession(sidOpt, "", "ok")
    \/ \E name \in AdapterResults \cup {"reply"} : ProcessResult(name)
    \/ CallFails("error")
    \/ NewProcess
    \/ TickAnyTime

SpecOutcome == InitStore /\ [][NextOutcome]_vars

\* the last call returned a success for session id
Succeeded(id) ==
    /\ out.op \in {"execute", "continue"}
    /\ out.success
    /\ out.session_persisted
    /\ out.session_id = id

\* C37: after a successful persisted call the session is completed exactly
\* when the call's next_action is complete, and active otherwise; and the
\* next continue_session on a session whose last call returned continue or
\* needs_reply, made before the session's time to live has run out, is
\* accepted: it reaches the adapter with that session.
C37_CompletedIffComplete ==
    [][ /\ (call.pc = "adapter" /\ call.persist /\ call' = Idle /\ out'.success) =>
              /\ out'.next_action \in {"complete", "continue", "needs_reply"}
              /\ sessions'[call.sid].status = "completed" <=> out'.next_action = "complete"
              /\ sessions'[call.sid].status = "active" <=> out'.next_action # "complete"
              /\ disk'[call.sid].status = sessions'[call.sid].status
        /\ ( /\ call = Idle
             /\ Succeeded("s1")
             /\ out.next_action # "complete"
             /\ ~Stale(sessions["s1"])
             /\ out' # out ) =>
              /\ call'.pc = "adapter"
              /\ call'.op = "continue"
              /\ call'.sid = "s1"
              /\ sessions'["s1"].status = "active"
      ]_vars

\* the session has been continued after a call that asked for a reply, and
\* the continuation, which asks for a reply again, has left it active
C37_Witness ==
    /\ Succeeded("s1")
    /\ out.op = "continue"
    /\ out.next_action = "needs_reply"
    /\ sessions["s1"].step_count = 2
    /\ sessions["s1"].history[1].result = "reply"
    /\ sessions["s1"].status = "active"

(* ===================================================================== *)
(* Part II, continued: the history of a session                          *)
(* ===================================================================== *)

\* updates of one session that the history specification follows
MaxHistory == 3

\* update_session on a session of fewer than MaxHistory steps
UpdateSessionUpTo(n, id, res, st) ==
    /\ id \in DOMAIN sessions => sessions[id].step_count < n
    /\ UpdateSessionEffect("update", id, res, st)
    /\ UNCHANGED <<now, procVars, callVars>>

\* every operation of the store on at most one session, which is updated up
\* to MaxHistory times, and the construction of a new store over the same
\* directory
NextHistory ==
    \/ CreateSession("s1", "d1")
    \/ GetSession("s1")
    \/ \E r \in AnyResult, st \in StatusArgs : UpdateSessionUpTo(MaxHistory, "s1", r, st)
    \/ ListActiveSessions
    \/ GetLatestSession("")
    \/ CleanupExpired
    \/ DeleteSession("s1")
    \/ Construct
    \/ Tick

SpecHistory == InitStore /\ [][NextHistory]_vars

\* the history of s has one entry per step, numbered from 1, and last_result
\* is the result of the last one
HistoryMatches(s) ==
    /\ Len(s.history) = s.step_count
    /\ \A i \in 1..Len(s.history) : s.history[i].step = i
    /\ s.step_count > 0 => s.last_result = s.history[Len(s.history)].result

\* C38: in every session of the store, in memory and on disk, the history
\* has step_count entries, the i-th has step = i, and when step_count > 0
\* last_result is the result of the last entry; an operation on a session
\* keeps the entries its history has, unchanged and in place, and does not
\* lower step_count.  (create_session makes a new session; what it does to
\* a session that was there under the same id is the matter of C40.)
C38_HistoryAppendOnly ==
    [][ /\ \A id \in DOMAIN sessions' : HistoryMatches(sessions'[id])
        /\ \A id \in DOMAIN disk' : HistoryMatches(disk'[id])
        /\ ret'.op # "create" =>
              \A id \in DOMAIN sessions \cap DOMAIN sessions' :
                 /\ sessions'[id].step_count >= sessions[id].step_count
                 /\ Len(sessions'[id].history) >= Len(sessions[id].history)
                 /\ \A i \in 1..Len(sessions[id].history) :
                       sessions'[id].history[i] = sessions[id].history[i]
      ]_vars

\* a session of three steps whose results differ, reloaded by a new store
C38_Witness ==
    /\ ret.op = "init"
    /\ "s1" \in DOMAIN sessions
    /\ sessions["s1"].step_count = 3
    /\ sessions["s1"].history[1].result = "r1"
    /\ sessions["s1"].history[2].result = "empty"
    /\ sessions["s1"].history[3].timestamp > sessions["s1"].history[1].timestamp

\* C39 (as claimed): after every operation of the store, construction
\* included, every session in memory has a record on disk with the same
\* status, step_count and updated_at.
C39_MemoryMatchesDisk ==
    \A id \in DOMAIN sessions :
        /\ id \in DOMAIN disk
        /\ disk[id].status = sessions[id].status
        /\ disk[id].step_count = sessions[id].step_count
        /\ disk[id].updated_at = sessions[id].updated_at

\* C40 (as claimed): create_session never returns an id that already
\* identifies a session of the store, in memory or on disk, so every session
\* and every record that was there before the call is still there, unchanged.
C40_CreateNeverOverwrites ==
    [][ \A id \in SessionIds : \A dev \in Devices :
          (ret'.op = "create" /\ CreateSession(id, dev)) =>
             /\ id \notin DOMAIN sessions
             /\ id \notin DOMAIN disk
             /\ \A other \in DOMAIN sessions :
                   other \in DOMAIN sessions' /\ sessions'[other] = sessions[other]
             /\ \A other \in DOMAIN disk :
                   other \in DOMAIN disk' /\ disk'[other] = disk[other]
      ]_vars

====
